---------------------------- MODULE Spec2Model ----------------------------
(***************************************************************************)
(* Model of the VL53L0X time-of-flight driver of src/app/vl53l0x.c.        *)
(*                                                                         *)
(* The driver's state is its free-standing globals (address, io_timeout,   *)
(* did_timeout, timeout_start_ms, stop_variable,                           *)
(* measurement_timing_budget_us).  The sensor is a byte-addressed register *)
(* file, banked by the last value written to register 0xFF.  Every         *)
(* driver function is one action up to its next blocking poll; a poll      *)
(* iteration is an action of its own (these loops are the only places      *)
(* where the driver waits for the sensor and for the tick source).         *)
(***************************************************************************)
EXTENDS Integers, Sequences, FiniteSets, TLC

(***************************************************************************)
(* Machine integers.  A uint32_t is held as its two 16-bit halves          *)
(* <<high, low>>, so that products that pass 2^31 are computed exactly and *)
(* wrap at 2^32 as they do in the driver.                                  *)
(***************************************************************************)
U8(x)  == x % 256
U16(x) == x % 65536

RECURSIVE Pow2(_)
Pow2(n) == IF n = 0 THEN 1 ELSE 2 * Pow2(n - 1)

\* (v >> i) & 1
BitOf(v, i) == (v \div Pow2(i)) % 2
\* v | (1 << i)
SetBit(v, i) == IF BitOf(v, i) = 1 THEN v ELSE v + Pow2(i)
\* v & ~(1 << i)
ClearBit(v, i) == IF BitOf(v, i) = 1 THEN v - Pow2(i) ELSE v

(***************************************************************************)
(* Register addresses (enum regAddr)                                       *)
(***************************************************************************)
SYSRANGE_START                              == \h00
SYSTEM_SEQUENCE_CONFIG                      == \h01
SYSTEM_INTERMEASUREMENT_PERIOD              == \h04
SYSTEM_INTERRUPT_CONFIG_GPIO                == \h0A
SYSTEM_INTERRUPT_CLEAR                      == \h0B
RESULT_INTERRUPT_STATUS                     == \h13
RESULT_RANGE_STATUS                         == \h14
GPIO_HV_MUX_ACTIVE_HIGH                     == \h84
I2C_SLAVE_DEVICE_ADDRESS                    == \h8A
MSRC_CONFIG_CONTROL                         == \h60
PRE_RANGE_CONFIG_VALID_PHASE_LOW            == \h56
PRE_RANGE_CONFIG_VALID_PHASE_HIGH           == \h57
FINAL_RANGE_CONFIG_VALID_PHASE_LOW          == \h47
FINAL_RANGE_CONFIG_VALID_PHASE_HIGH         == \h48
FINAL_RANGE_CONFIG_MIN_COUNT_RATE_RTN_LIMIT == \h44
PRE_RANGE_CONFIG_VCSEL_PERIOD               == \h50
PRE_RANGE_CONFIG_TIMEOUT_MACROP_HI          == \h51
FINAL_RANGE_CONFIG_VCSEL_PERIOD             == \h70
FINAL_RANGE_CONFIG_TIMEOUT_MACROP_HI        == \h71
MSRC_CONFIG_TIMEOUT_MACROP                  == \h46
OSC_CALIBRATE_VAL                           == \hF8
GLOBAL_CONFIG_VCSEL_WIDTH                   == \h32
GLOBAL_CONFIG_SPAD_ENABLES_REF_0            == \hB0
GLOBAL_CONFIG_REF_EN_START_SELECT           == \hB6
DYNAMIC_SPAD_NUM_REQUESTED_REF_SPAD         == \h4E
DYNAMIC_SPAD_REF_EN_START_OFFSET            == \h4F
VHV_CONFIG_PAD_SCL_SDA__EXTSUP_HV           == \h89
ALGO_PHASECAL_LIM                           == \h30
ALGO_PHASECAL_CONFIG_TIMEOUT                == \h30
\* the bank-select register
BANK_SELECT                                 == \hFF

\* enum vcselPeriodType; any other int is an invalid type
VcselPeriodPreRange   == 0
VcselPeriodFinalRange == 1

(***************************************************************************)
(* Timing model: pure conversions                                          *)
(***************************************************************************)
decodeVcselPeriod(reg_val) == (reg_val + 1) * 2

encodeVcselPeriod(period_pclks) == (period_pclks \div 2) - 1

\* uint32_t from a value below 2^31
Wide(x) == <<x \div 65536, x % 65536>>

\* a * b as uint32_t, for a below 2^31 and b below 2^16
Mul32(a, b) ==
    LET ah == a \div 65536
        al == a % 65536
        bh == b \div 256
        bl == b % 256
        x  == al * bh
        y  == al * bl
        lo_sum == y + (x % 256) * 256
        carry  == (lo_sum \div 65536) + (x \div 256)
        ahb    == (((ah * bh) % 256) * 256 + ah * bl) % 65536
    IN  <<(carry + ahb) % 65536, lo_sum % 65536>>

\* w + c as uint32_t, for c below 2^31
Add32(w, c) ==
    LET lo_sum == w[2] + (c % 65536)
    IN  <<(w[1] + (c \div 65536) + (lo_sum \div 65536)) % 65536, lo_sum % 65536>>

\* whether a * b, as in Mul32, exceeds 32 bits
Mul32Wraps(a, b) ==
    LET ah == a \div 65536
        al == a % 65536
        x  == al * (b \div 256)
        y  == al * (b % 256)
        lo_sum == y + (x % 256) * 256
    IN  ah * b + (lo_sum \div 65536) + (x \div 256) >= 65536

\* whether w + c, as in Add32, exceeds 32 bits
Add32Wraps(w, c) ==
    w[1] + (c \div 65536) + ((w[2] + (c % 65536)) \div 65536) >= 65536

\* w / d, unsigned, for a divisor from 2 to 2^29: the halved dividend fits
\* the checker's integers
Div32(w, d) ==
    LET half == w[1] * 32768 + (w[2] \div 2)
        bit0 == w[2] % 2
    IN  2 * (half \div d) + (2 * (half % d) + bit0) \div d

\* calcMacroPeriod with the product 2304 * pclks kept in 16 bits
calcMacroPeriod_narrow(vcsel_period_pclks) ==
    ((U16(2304 * vcsel_period_pclks) * 1655) + 500) \div 1000

\* p is at most 255 (a uint8_t), so the product stays below 2^30
calcMacroPeriod(vcsel_period_pclks) ==
    ((2304 * vcsel_period_pclks * 1655) + 500) \div 1000

\* (uint16_t)((reg_val & 0x00FF) << ((reg_val & 0xFF00) >> 8)) + 1, returned as
\* uint16_t.  The shift is an int shift; for a shift count of 16 or more every
\* bit of the low byte leaves the 16-bit result.
decodeTimeout(reg_val) ==
    LET ls == reg_val % 256
        ms == (reg_val \div 256) % 256
    IN  U16((IF ms < 16 THEN U16(ls * Pow2(ms)) ELSE 0) + 1)

RECURSIVE encodeTimeoutLoop(_, _)
encodeTimeoutLoop(ls_byte, ms_byte) ==
    IF ls_byte > 255
    THEN encodeTimeoutLoop(ls_byte \div 2, ms_byte + 1)
    ELSE U16(ms_byte * 256 + (ls_byte % 256))

\* encodeTimeout without the format's offset of one
encodeTimeout_plain(timeout_mclks) ==
    IF timeout_mclks > 0 THEN encodeTimeoutLoop(timeout_mclks, 0) ELSE 0

encodeTimeout(timeout_mclks) ==
    IF timeout_mclks > 0 THEN encodeTimeoutLoop(timeout_mclks - 1, 0) ELSE 0

timeoutMclksToMicroseconds(timeout_period_mclks, vcsel_period_pclks) ==
    LET macro_period_ns == calcMacroPeriod(vcsel_period_pclks)
    IN  Div32(Add32(Mul32(macro_period_ns, timeout_period_mclks),
                    macro_period_ns \div 2),
              1000)

\* timeout_period_us is a uint32_t; the model passes values below 2^31
timeoutMicrosecondsToMclks(timeout_period_us, vcsel_period_pclks) ==
    LET macro_period_ns == calcMacroPeriod(vcsel_period_pclks)
    IN  Div32(Add32(Mul32(timeout_period_us, 1000), macro_period_ns \div 2),
              macro_period_ns)

\* whether an intermediate of timeoutMclksToMicroseconds exceeds 32 bits
timeoutMclksToMicrosecondsWraps(timeout_period_mclks, vcsel_period_pclks) ==
    LET macro_period_ns == calcMacroPeriod(vcsel_period_pclks)
    IN  \/ Mul32Wraps(macro_period_ns, timeout_period_mclks)
        \/ Add32Wraps(Mul32(macro_period_ns, timeout_period_mclks),
                      macro_period_ns \div 2)

\* whether an intermediate of timeoutMicrosecondsToMclks exceeds 32 bits
timeoutMicrosecondsToMclksWraps(timeout_period_us, vcsel_period_pclks) ==
    LET macro_period_ns == calcMacroPeriod(vcsel_period_pclks)
    IN  \/ Mul32Wraps(timeout_period_us, 1000)
        \/ Add32Wraps(Mul32(timeout_period_us, 1000), macro_period_ns \div 2)

(***************************************************************************)
(* Register transport.  The sensor's registers are bytes; register 0xFF    *)
(* selects the bank that every other register number addresses.  A         *)
(* register that was never written reads as its power-on value.  A bus     *)
(* state s is a record [m, log]: the register file and the writes issued   *)
(* so far by the running driver function, in order.                        *)
(***************************************************************************)
Bank(m) == IF BANK_SELECT \in DOMAIN m THEN m[BANK_SELECT] ELSE 0

Key(m, reg) == IF reg = BANK_SELECT THEN BANK_SELECT ELSE Bank(m) * 256 + reg

Rd(m, k) == IF k \in DOMAIN m THEN m[k] ELSE 0

Wr(m, k, v) == (k :> v) @@ m

vl53l0x_read_reg(m, reg) == Rd(m, Key(m, reg))

\* big-endian on the wire: the byte at reg is the high byte
vl53l0x_read_reg16_bit(m, reg) ==
    vl53l0x_read_reg(m, reg) * 256 + vl53l0x_read_reg(m, reg + 1)

vl53l0x_write_reg(s, reg, value) ==
    [m   |-> Wr(s.m, Key(s.m, reg), value),
     log |-> Append(s.log, <<reg, value>>)]

vl53l0x_write_reg16_bit(s, reg, value) ==
    [m   |-> Wr(Wr(s.m, Key(s.m, reg), (value \div 256) % 256),
                Key(s.m, reg + 1), value % 256),
     log |-> Append(s.log, <<reg, value>>)]

\* the register file with the 16-bit value the sensor shows at reg
SensorShows16(m, reg, value) ==
    Wr(Wr(m, Key(m, reg), value \div 256), Key(m, reg + 1), value % 256)

\* value is a uint32_t <<high, low>>; the most significant byte goes first
vl53l0x_write_reg32_bit(s, reg, value) ==
    [m   |-> Wr(Wr(Wr(Wr(s.m, Key(s.m, reg), value[1] \div 256),
                      Key(s.m, reg + 1), value[1] % 256),
                   Key(s.m, reg + 2), value[2] \div 256),
                Key(s.m, reg + 3), value[2] % 256),
     log |-> Append(s.log, <<reg, value>>)]

\* A run of 8-bit register writes ws, in order, given by its effect on a
\* register file whose selected bank is bank0: write i goes to the bank
\* selected by the last write to BANK_SELECT before it, and each register is
\* left with the last value written to it.
WriteEffect(ws, bank0) ==
    LET Last(S) == CHOOSE i \in S : \A j \in S : j <= i
        BankAt(i) ==
            LET sel == {j \in 1..(i - 1) : ws[j][1] = BANK_SELECT}
            IN  IF sel = {} THEN bank0 ELSE ws[Last(sel)][2]
        KeyAt(i) == IF ws[i][1] = BANK_SELECT THEN BANK_SELECT
                    ELSE BankAt(i) * 256 + ws[i][1]
        keyed == {<<i, KeyAt(i)>> : i \in 1..Len(ws)}
    IN  [k \in {p[2] : p \in keyed} |->
            ws[Last({p[1] : p \in {q \in keyed : q[2] = k}})][2]]

WriteAll(s, ws) ==
    [m   |-> WriteEffect(ws, Bank(s.m)) @@ s.m,
     log |-> s.log \o ws]

\* vl53l0x_write_multi: count bytes starting at reg
RECURSIVE vl53l0x_write_multi(_, _, _)
vl53l0x_write_multi(s, reg, src) ==
    IF src = <<>> THEN s
    ELSE vl53l0x_write_multi(vl53l0x_write_reg(s, reg, src[1]), reg + 1, Tail(src))

\* vl53l0x_read_multi: count bytes starting at reg
vl53l0x_read_multi(m, reg, count) ==
    [i \in 1..count |-> vl53l0x_read_reg(m, reg + i - 1)]

(***************************************************************************)
(* Sequence steps                                                          *)
(***************************************************************************)
\* a decoding that takes msrc from bit 3 and dss from bit 2
getSequenceStepEnables_swapped(m) ==
    LET sequence_config == vl53l0x_read_reg(m, SYSTEM_SEQUENCE_CONFIG)
    IN  [tcc         |-> BitOf(sequence_config, 4) = 1,
         dss         |-> BitOf(sequence_config, 2) = 1,
         msrc        |-> BitOf(sequence_config, 3) = 1,
         pre_range   |-> BitOf(sequence_config, 6) = 1,
         final_range |-> BitOf(sequence_config, 7) = 1]

getSequenceStepEnables(m) ==
    LET sequence_config == vl53l0x_read_reg(m, SYSTEM_SEQUENCE_CONFIG)
    IN  [tcc         |-> BitOf(sequence_config, 4) = 1,
         dss         |-> BitOf(sequence_config, 3) = 1,
         msrc        |-> BitOf(sequence_config, 2) = 1,
         pre_range   |-> BitOf(sequence_config, 6) = 1,
         final_range |-> BitOf(sequence_config, 7) = 1]

\* returns uint8_t
vl53l0x_get_vcsel_pulse_period(m, type) ==
    IF type = VcselPeriodPreRange
    THEN U8(decodeVcselPeriod(vl53l0x_read_reg(m, PRE_RANGE_CONFIG_VCSEL_PERIOD)))
    ELSE IF type = VcselPeriodFinalRange
    THEN U8(decodeVcselPeriod(vl53l0x_read_reg(m, FINAL_RANGE_CONFIG_VCSEL_PERIOD)))
    ELSE 255

getSequenceStepTimeouts(m, enables) ==
    LET pre_pclks   == vl53l0x_get_vcsel_pulse_period(m, VcselPeriodPreRange)
        msrc_mclks  == U16(vl53l0x_read_reg(m, MSRC_CONFIG_TIMEOUT_MACROP) + 1)
        pre_mclks   == decodeTimeout(
                         vl53l0x_read_reg16_bit(m, PRE_RANGE_CONFIG_TIMEOUT_MACROP_HI))
        final_pclks == vl53l0x_get_vcsel_pulse_period(m, VcselPeriodFinalRange)
        final_raw   == decodeTimeout(
                         vl53l0x_read_reg16_bit(m, FINAL_RANGE_CONFIG_TIMEOUT_MACROP_HI))
        final_mclks == IF enables.pre_range
                       THEN U16(final_raw - pre_mclks) ELSE final_raw
    IN  [pre_range_vcsel_period_pclks   |-> pre_pclks,
         final_range_vcsel_period_pclks |-> final_pclks,
         msrc_dss_tcc_mclks |-> msrc_mclks,
         pre_range_mclks    |-> pre_mclks,
         final_range_mclks  |-> final_mclks,
         msrc_dss_tcc_us    |-> timeoutMclksToMicroseconds(msrc_mclks, pre_pclks),
         pre_range_us       |-> timeoutMclksToMicroseconds(pre_mclks, pre_pclks),
         final_range_us     |-> timeoutMclksToMicroseconds(final_mclks, final_pclks)]

(***************************************************************************)
(* Configuration operations, as functions of the bus state.  Each returns  *)
(* the bus state it leaves and its return value.                           *)
(***************************************************************************)
\* vl53l0x_set_signal_rate_limit rounding to the nearest encoding step
vl53l0x_set_signal_rate_limit_rounds(s, limit_c) ==
    IF limit_c < 0 \/ limit_c > 51199
    THEN [ok |-> FALSE, s |-> s]
    ELSE [ok |-> TRUE,
          s  |-> vl53l0x_write_reg16_bit(s, FINAL_RANGE_CONFIG_MIN_COUNT_RATE_RTN_LIMIT,
                                         U16((limit_c * 128 + 50) \div 100))]

\* vl53l0x_set_signal_rate_limit with the range check after the write
vl53l0x_set_signal_rate_limit_late(s, limit_c) ==
    [ok |-> ~(limit_c < 0 \/ limit_c > 51199),
     s  |-> vl53l0x_write_reg16_bit(s, FINAL_RANGE_CONFIG_MIN_COUNT_RATE_RTN_LIMIT,
                                    U16((limit_c * 128) \div 100))]

\* limit_c is the limit in hundredths of a MCPS; the register holds Q9.7
vl53l0x_set_signal_rate_limit(s, limit_c) ==
    IF limit_c < 0 \/ limit_c > 51199
    THEN [ok |-> FALSE, s |-> s]
    ELSE [ok |-> TRUE,
          s  |-> vl53l0x_write_reg16_bit(s, FINAL_RANGE_CONFIG_MIN_COUNT_RATE_RTN_LIMIT,
                                         U16((limit_c * 128) \div 100))]

\* a budget that counts the DSS timeout once
UsedBudget_single_dss(enables, timeouts, StartOverhead) ==
    LET EndOverhead      == 960
        MsrcOverhead     == 660
        TccOverhead      == 590
        DssOverhead      == 690
        PreRangeOverhead == 660
        b0 == StartOverhead + EndOverhead
        b1 == IF enables.tcc
              THEN b0 + (timeouts.msrc_dss_tcc_us + TccOverhead) ELSE b0
        b2 == IF enables.dss
              THEN b1 + (timeouts.msrc_dss_tcc_us + DssOverhead)
              ELSE IF enables.msrc
              THEN b1 + (timeouts.msrc_dss_tcc_us + MsrcOverhead)
              ELSE b1
    IN  IF enables.pre_range
        THEN b2 + (timeouts.pre_range_us + PreRangeOverhead) ELSE b2

\* the budget in use before the final range step, with the given start
\* overhead.  Every timeout is a uint32_t quotient by 1000, below 2^23, so no
\* sum here reaches 2^32.
UsedBudget(enables, timeouts, StartOverhead) ==
    LET EndOverhead      == 960
        MsrcOverhead     == 660
        TccOverhead      == 590
        DssOverhead      == 690
        PreRangeOverhead == 660
        b0 == StartOverhead + EndOverhead
        b1 == IF enables.tcc
              THEN b0 + (timeouts.msrc_dss_tcc_us + TccOverhead) ELSE b0
        b2 == IF enables.dss
              THEN b1 + 2 * (timeouts.msrc_dss_tcc_us + DssOverhead)
              ELSE IF enables.msrc
              THEN b1 + (timeouts.msrc_dss_tcc_us + MsrcOverhead)
              ELSE b1
    IN  IF enables.pre_range
        THEN b2 + (timeouts.pre_range_us + PreRangeOverhead) ELSE b2

\* vl53l0x_set_measurement_timing_budget caching the budget also when the
\* final range step is disabled
vl53l0x_set_measurement_timing_budget_caches(s, mtb, budget_us) ==
    LET StartOverhead      == 1320
        FinalRangeOverhead == 550
        MinTimingBudget    == 20000
        enables  == getSequenceStepEnables(s.m)
        timeouts == getSequenceStepTimeouts(s.m, enables)
        used_budget_us ==
            UsedBudget(enables, timeouts, StartOverhead) + FinalRangeOverhead
        final_range_timeout_us == budget_us - used_budget_us
        mclks0 == U16(timeoutMicrosecondsToMclks(
                        final_range_timeout_us,
                        timeouts.final_range_vcsel_period_pclks))
        final_range_timeout_mclks ==
            IF enables.pre_range THEN U16(mclks0 + timeouts.pre_range_mclks)
            ELSE mclks0
    IN  IF budget_us < MinTimingBudget
        THEN [ok |-> FALSE, s |-> s, mtb |-> mtb]
        ELSE IF ~enables.final_range
        THEN [ok |-> TRUE, s |-> s, mtb |-> budget_us]
        ELSE IF used_budget_us > budget_us
        THEN [ok |-> FALSE, s |-> s, mtb |-> mtb]
        ELSE [ok  |-> TRUE,
              s   |-> vl53l0x_write_reg16_bit(s, FINAL_RANGE_CONFIG_TIMEOUT_MACROP_HI,
                                              encodeTimeout(final_range_timeout_mclks)),
              mtb |-> budget_us]

\* vl53l0x_set_measurement_timing_budget refusing the minimum itself
vl53l0x_set_measurement_timing_budget_exclusive(s, mtb, budget_us) ==
    LET StartOverhead      == 1320
        FinalRangeOverhead == 550
        MinTimingBudget    == 20000
        enables  == getSequenceStepEnables(s.m)
        timeouts == getSequenceStepTimeouts(s.m, enables)
        used_budget_us ==
            UsedBudget(enables, timeouts, StartOverhead) + FinalRangeOverhead
        final_range_timeout_us == budget_us - used_budget_us
        mclks0 == U16(timeoutMicrosecondsToMclks(
                        final_range_timeout_us,
                        timeouts.final_range_vcsel_period_pclks))
        final_range_timeout_mclks ==
            IF enables.pre_range THEN U16(mclks0 + timeouts.pre_range_mclks)
            ELSE mclks0
    IN  IF budget_us <= MinTimingBudget
        THEN [ok |-> FALSE, s |-> s, mtb |-> mtb]
        ELSE IF ~enables.final_range
        THEN [ok |-> TRUE, s |-> s, mtb |-> mtb]
        ELSE IF used_budget_us > budget_us
        THEN [ok |-> FALSE, s |-> s, mtb |-> mtb]
        ELSE [ok  |-> TRUE,
              s   |-> vl53l0x_write_reg16_bit(s, FINAL_RANGE_CONFIG_TIMEOUT_MACROP_HI,
                                              encodeTimeout(final_range_timeout_mclks)),
              mtb |-> budget_us]

\* mtb is measurement_timing_budget_us on entry; the result's mtb is its value
\* on return
vl53l0x_set_measurement_timing_budget(s, mtb, budget_us) ==
    LET StartOverhead      == 1320
        FinalRangeOverhead == 550
        MinTimingBudget    == 20000
        enables  == getSequenceStepEnables(s.m)
        timeouts == getSequenceStepTimeouts(s.m, enables)
        used_budget_us ==
            UsedBudget(enables, timeouts, StartOverhead) + FinalRangeOverhead
        final_range_timeout_us == budget_us - used_budget_us
        mclks0 == U16(timeoutMicrosecondsToMclks(
                        final_range_timeout_us,
                        timeouts.final_range_vcsel_period_pclks))
        final_range_timeout_mclks ==
            IF enables.pre_range THEN U16(mclks0 + timeouts.pre_range_mclks)
            ELSE mclks0
    IN  IF budget_us < MinTimingBudget
        THEN [ok |-> FALSE, s |-> s, mtb |-> mtb]
        ELSE IF ~enables.final_range
        THEN [ok |-> TRUE, s |-> s, mtb |-> mtb]
        ELSE IF used_budget_us > budget_us
        THEN [ok |-> FALSE, s |-> s, mtb |-> mtb]
        ELSE [ok  |-> TRUE,
              s   |-> vl53l0x_write_reg16_bit(s, FINAL_RANGE_CONFIG_TIMEOUT_MACROP_HI,
                                              encodeTimeout(final_range_timeout_mclks)),
              mtb |-> budget_us]

\* vl53l0x_get_measurement_timing_budget with the start overhead of the setter
vl53l0x_get_measurement_timing_budget_as_set(m) ==
    LET StartOverhead      == 1320
        FinalRangeOverhead == 550
        enables  == getSequenceStepEnables(m)
        timeouts == getSequenceStepTimeouts(m, enables)
        budget_us == UsedBudget(enables, timeouts, StartOverhead)
    IN  IF enables.final_range
        THEN budget_us + (timeouts.final_range_us + FinalRangeOverhead)
        ELSE budget_us

\* the value returned, which the function also stores in
\* measurement_timing_budget_us
vl53l0x_get_measurement_timing_budget(m) ==
    LET StartOverhead      == 1910
        FinalRangeOverhead == 550
        enables  == getSequenceStepEnables(m)
        timeouts == getSequenceStepTimeouts(m, enables)
        budget_us == UsedBudget(enables, timeouts, StartOverhead)
    IN  IF enables.final_range
        THEN budget_us + (timeouts.final_range_us + FinalRangeOverhead)
        ELSE budget_us

\* the pre-range table looked up by the encoded (halved) period
PreRangePhaseHigh_rounds(period_pclks) ==
    CASE period_pclks \div 2 = 6 -> \h18
      [] period_pclks \div 2 = 7 -> \h30
      [] period_pclks \div 2 = 8 -> \h40
      [] period_pclks \div 2 = 9 -> \h50
      [] OTHER -> -1

PreRangePhaseHigh(period_pclks) ==
    CASE period_pclks = 12 -> \h18
      [] period_pclks = 14 -> \h30
      [] period_pclks = 16 -> \h40
      [] period_pclks = 18 -> \h50
      [] OTHER -> -1

\* <<VALID_PHASE_HIGH, GLOBAL_CONFIG_VCSEL_WIDTH, ALGO_PHASECAL_CONFIG_TIMEOUT,
\*   ALGO_PHASECAL_LIM>>
FinalRangeSettings(period_pclks) ==
    CASE period_pclks = 8  -> <<\h10, \h02, \h0C, \h30>>
      [] period_pclks = 10 -> <<\h28, \h03, \h09, \h20>>
      [] period_pclks = 12 -> <<\h38, \h03, \h08, \h20>>
      [] period_pclks = 14 -> <<\h48, \h03, \h07, \h20>>
      [] OTHER -> <<>>

\* vl53l0x_set_vcsel_pulse_period up to the re-application of the timing
\* budget: the period's validation and the register updates
SetVcselRegisters(s, type, period_pclks) ==
    LET vcsel_period_reg == U8(encodeVcselPeriod(period_pclks))
        enables  == getSequenceStepEnables(s.m)
        timeouts == getSequenceStepTimeouts(s.m, enables)
    IN  IF type = VcselPeriodPreRange
        THEN IF PreRangePhaseHigh(period_pclks) = -1
             THEN [ok |-> FALSE, s |-> s]
             ELSE
               LET s1 == WriteAll(s,
                           << <<PRE_RANGE_CONFIG_VALID_PHASE_HIGH,
                                PreRangePhaseHigh(period_pclks)>>,
                              <<PRE_RANGE_CONFIG_VALID_PHASE_LOW, \h08>>,
                              <<PRE_RANGE_CONFIG_VCSEL_PERIOD, vcsel_period_reg>> >>)
                   new_pre_range_timeout_mclks ==
                       U16(timeoutMicrosecondsToMclks(timeouts.pre_range_us,
                                                      period_pclks))
                   s2 == vl53l0x_write_reg16_bit(s1, PRE_RANGE_CONFIG_TIMEOUT_MACROP_HI,
                                                 encodeTimeout(new_pre_range_timeout_mclks))
                   new_msrc_timeout_mclks ==
                       U16(timeoutMicrosecondsToMclks(timeouts.msrc_dss_tcc_us,
                                                      period_pclks))
               IN  [ok |-> TRUE,
                    s  |-> vl53l0x_write_reg(s2, MSRC_CONFIG_TIMEOUT_MACROP,
                              IF new_msrc_timeout_mclks > 256 THEN 255
                              ELSE U8(new_msrc_timeout_mclks + 255))]
        ELSE IF type = VcselPeriodFinalRange
        THEN IF FinalRangeSettings(period_pclks) = <<>>
             THEN [ok |-> FALSE, s |-> s]
             ELSE
               LET c  == FinalRangeSettings(period_pclks)
                   s1 == WriteAll(s,
                           << <<FINAL_RANGE_CONFIG_VALID_PHASE_HIGH, c[1]>>,
                              <<FINAL_RANGE_CONFIG_VALID_PHASE_LOW, \h08>>,
                              <<GLOBAL_CONFIG_VCSEL_WIDTH, c[2]>>,
                              <<ALGO_PHASECAL_CONFIG_TIMEOUT, c[3]>>,
                              <<BANK_SELECT, \h01>>,
                              <<ALGO_PHASECAL_LIM, c[4]>>,
                              <<BANK_SELECT, \h00>>,
                              <<FINAL_RANGE_CONFIG_VCSEL_PERIOD, vcsel_period_reg>> >>)
                   mclks0 == U16(timeoutMicrosecondsToMclks(timeouts.final_range_us,
                                                            period_pclks))
                   new_final_range_timeout_mclks ==
                       IF enables.pre_range
                       THEN U16(mclks0 + timeouts.pre_range_mclks) ELSE mclks0
               IN  [ok |-> TRUE,
                    s  |-> vl53l0x_write_reg16_bit(s1,
                              FINAL_RANGE_CONFIG_TIMEOUT_MACROP_HI,
                              encodeTimeout(new_final_range_timeout_mclks))]
        ELSE [ok |-> FALSE, s |-> s]

(***************************************************************************)
(* vl53l0x_init, cut at its three blocking polls.                          *)
(***************************************************************************)
DefaultTuningSettings ==
    <<
       <<\hFF, \h01>>, <<\h00, \h00>>, <<\hFF, \h00>>, <<\h09, \h00>>,
       <<\h10, \h00>>, <<\h11, \h00>>, <<\h24, \h01>>, <<\h25, \hFF>>,
       <<\h75, \h00>>, <<\hFF, \h01>>, <<\h4E, \h2C>>, <<\h48, \h00>>,
       <<\h30, \h20>>, <<\hFF, \h00>>, <<\h30, \h09>>, <<\h54, \h00>>,
       <<\h31, \h04>>, <<\h32, \h03>>, <<\h40, \h83>>, <<\h46, \h25>>,
       <<\h60, \h00>>, <<\h27, \h00>>, <<\h50, \h06>>, <<\h51, \h00>>,
       <<\h52, \h96>>, <<\h56, \h08>>, <<\h57, \h30>>, <<\h61, \h00>>,
       <<\h62, \h00>>, <<\h64, \h00>>, <<\h65, \h00>>, <<\h66, \hA0>>,
       <<\hFF, \h01>>, <<\h22, \h32>>, <<\h47, \h14>>, <<\h49, \hFF>>,
       <<\h4A, \h00>>, <<\hFF, \h00>>, <<\h7A, \h0A>>, <<\h7B, \h00>>,
       <<\h78, \h21>>, <<\hFF, \h01>>, <<\h23, \h34>>, <<\h42, \h00>>,
       <<\h44, \hFF>>, <<\h45, \h26>>, <<\h46, \h05>>, <<\h40, \h40>>,
       <<\h0E, \h06>>, <<\h20, \h1A>>, <<\h43, \h40>>, <<\hFF, \h00>>,
       <<\h34, \h03>>, <<\h35, \h44>>, <<\hFF, \h01>>, <<\h31, \h04>>,
       <<\h4B, \h09>>, <<\h4C, \h05>>, <<\h4D, \h04>>, <<\hFF, \h00>>,
       <<\h44, \h00>>, <<\h45, \h20>>, <<\h47, \h08>>, <<\h48, \h28>>,
       <<\h67, \h00>>, <<\h70, \h04>>, <<\h71, \h01>>, <<\h72, \hFE>>,
       <<\h76, \h00>>, <<\h77, \h00>>, <<\hFF, \h01>>, <<\h0D, \h01>>,
       <<\hFF, \h00>>, <<\h80, \h01>>, <<\h01, \hF8>>, <<\hFF, \h01>>,
       <<\h8E, \h01>>, <<\h00, \h01>>, <<\hFF, \h00>>, <<\h80, \h00>>
    >>

\* the table opens with a bank selection, so its effect is the same whatever
\* bank was selected before
DefaultTuningEffect == WriteEffect(DefaultTuningSettings, 0)

\* the stop_variable restore sequence around register 0x91
StopVariableRestore(stop) ==
    << <<\h80, \h01>>, <<\hFF, \h01>>, <<\h00, \h00>>, <<\h91, stop>>,
       <<\h00, \h01>>, <<\hFF, \h00>>, <<\h80, \h00>> >>

\* VL53L0X_DataInit(): from the I/O mode to the enabling of every sequence step
InitDataInit(s0, io_2v8) ==
    LET s1 == IF io_2v8
              THEN vl53l0x_write_reg(s0, VHV_CONFIG_PAD_SCL_SDA__EXTSUP_HV,
                     SetBit(vl53l0x_read_reg(s0.m, VHV_CONFIG_PAD_SCL_SDA__EXTSUP_HV), 0))
              ELSE s0
        s2 == WriteAll(s1, << <<\h88, \h00>>, <<\h80, \h01>>, <<\hFF, \h01>>,
                              <<\h00, \h00>> >>)
        stop == vl53l0x_read_reg(s2.m, \h91)
        s3 == WriteAll(s2, << <<\h00, \h01>>, <<\hFF, \h00>>, <<\h80, \h00>> >>)
        s4 == vl53l0x_write_reg(s3, MSRC_CONFIG_CONTROL,
                SetBit(SetBit(vl53l0x_read_reg(s3.m, MSRC_CONFIG_CONTROL), 1), 4))
        s5 == vl53l0x_set_signal_rate_limit(s4, 25).s
    IN  [s |-> vl53l0x_write_reg(s5, SYSTEM_SEQUENCE_CONFIG, \hFF),
         stop_variable |-> stop]

\* getSpadInfo up to its poll of register 0x83
getSpadInfoStart(s0) ==
    LET s1 == WriteAll(s0, << <<\h80, \h01>>, <<\hFF, \h01>>, <<\h00, \h00>>,
                              <<\hFF, \h06>> >>)
        s2 == vl53l0x_write_reg(s1, \h83, SetBit(vl53l0x_read_reg(s1.m, \h83), 2))
    IN  WriteAll(s2, << <<\hFF, \h07>>, <<\h81, \h01>>, <<\h80, \h01>>,
                        <<\h94, \h6B>>, <<\h83, \h00>> >>)

\* getSpadInfo after its poll
getSpadInfoFinish(s0) ==
    LET s1  == vl53l0x_write_reg(s0, \h83, \h01)
        tmp == vl53l0x_read_reg(s1.m, \h92)
        s2  == WriteAll(s1, << <<\h81, \h00>>, <<\hFF, \h06>> >>)
        s3  == vl53l0x_write_reg(s2, \h83, ClearBit(vl53l0x_read_reg(s2.m, \h83), 2))
    IN  [s |-> WriteAll(s3, << <<\hFF, \h01>>, <<\h00, \h01>>, <<\hFF, \h00>>,
                               <<\h80, \h00>> >>),
         count |-> tmp % 128,
         type_is_aperture |-> BitOf(tmp, 7) = 1]

\* The loop over the 48 reference SPADs, by its invariant: i counts from 0,
\* the map from 1.  On entry to iteration i, spads_enabled is the number of
\* set bits met from first_spad_to_enable on, up to spad_count, where the
\* count stops; the iteration clears bit i if i is below first_spad_to_enable
\* or the count has stopped.
SpadBit(ref_spad_map, i) == BitOf(ref_spad_map[(i \div 8) + 1], i % 8)

SpadsEnabledAt(ref_spad_map, i, first_spad_to_enable, spad_count) ==
    LET met == Cardinality({j \in first_spad_to_enable..(i - 1) :
                               SpadBit(ref_spad_map, j) = 1})
    IN  IF met < spad_count THEN met ELSE spad_count

SpadMapLoop(ref_spad_map, first_spad_to_enable, spad_count) ==
    LET kept(i) ==
            IF i < first_spad_to_enable
               \/ SpadsEnabledAt(ref_spad_map, i, first_spad_to_enable,
                                 spad_count) = spad_count
            THEN 0 ELSE SpadBit(ref_spad_map, i)
    IN  [b \in 1..6 |->
            kept(8 * b - 8) + 2 * kept(8 * b - 7) + 4 * kept(8 * b - 6)
            + 8 * kept(8 * b - 5) + 16 * kept(8 * b - 4) + 32 * kept(8 * b - 3)
            + 64 * kept(8 * b - 2) + 128 * kept(8 * b - 1)]

\* performSingleRefCalibration up to its poll
CalibrationStart(s, vhv_init_byte) ==
    vl53l0x_write_reg(s, SYSRANGE_START, SetBit(vhv_init_byte, 0))

\* performSingleRefCalibration stopping the measurement before it clears the
\* interrupt
CalibrationFinish_stops_first(s) ==
    WriteAll(s, << <<SYSRANGE_START, \h00>>, <<SYSTEM_INTERRUPT_CLEAR, \h01>> >>)

\* performSingleRefCalibration after its poll
CalibrationFinish(s) ==
    WriteAll(s, << <<SYSTEM_INTERRUPT_CLEAR, \h01>>, <<SYSRANGE_START, \h00>> >>)

\* VL53L0X_StaticInit() after getSpadInfo, then the start of the VHV calibration
InitStaticInit(s0, spad_count, spad_type_is_aperture) ==
    LET ref_spad_map == vl53l0x_read_multi(s0.m, GLOBAL_CONFIG_SPAD_ENABLES_REF_0, 6)
        s1 == WriteAll(s0, << <<\hFF, \h01>>,
                              <<DYNAMIC_SPAD_REF_EN_START_OFFSET, \h00>>,
                              <<DYNAMIC_SPAD_NUM_REQUESTED_REF_SPAD, \h2C>>,
                              <<\hFF, \h00>>,
                              <<GLOBAL_CONFIG_REF_EN_START_SELECT, \hB4>> >>)
        first_spad_to_enable == IF spad_type_is_aperture THEN 12 ELSE 0
        s2 == vl53l0x_write_multi(s1, GLOBAL_CONFIG_SPAD_ENABLES_REF_0,
                SpadMapLoop(ref_spad_map, first_spad_to_enable, spad_count))
        s3 == [m   |-> DefaultTuningEffect @@ s2.m,
               log |-> s2.log \o DefaultTuningSettings]
        s4 == vl53l0x_write_reg(s3, SYSTEM_INTERRUPT_CONFIG_GPIO, \h04)
        s5 == vl53l0x_write_reg(s4, GPIO_HV_MUX_ACTIVE_HIGH,
                ClearBit(vl53l0x_read_reg(s4.m, GPIO_HV_MUX_ACTIVE_HIGH), 4))
        s6 == vl53l0x_write_reg(s5, SYSTEM_INTERRUPT_CLEAR, \h01)
        budget == vl53l0x_get_measurement_timing_budget(s6.m)
        s7 == vl53l0x_write_reg(s6, SYSTEM_SEQUENCE_CONFIG, \hE8)
        r8 == vl53l0x_set_measurement_timing_budget(s7, budget, budget)
        s9 == vl53l0x_write_reg(r8.s, SYSTEM_SEQUENCE_CONFIG, \h01)
    IN  [s |-> CalibrationStart(s9, \h40), mtb |-> r8.mtb]

(***************************************************************************)
(* State                                                                   *)
(***************************************************************************)
VARIABLES
    \* the driver's globals (vl53l0x.h, vl53l0x.c)
    address, io_timeout, did_timeout, timeout_start_ms,
    stop_variable, measurement_timing_budget_us,
    \* set_vcsel_pulse_period's local sequence_config, live across its poll
    sequence_config,
    \* the sensor's register file and the platform's tick source
    regs, tick,
    \* where the driver is: "idle", or the poll it is blocked in
    pc,
    \* the running (or last) public function, its return value (a bool as 0/1)
    \* and the register writes it has issued
    op, ret, log,
    \* what the running (or last) function observed: whether one of its polls
    \* ended by deadline expiry, the value of the polled register when its last
    \* poll ended, the value it read from the range result register (-1: none)
    expired, polled, range_read,
    \* the arguments of the last vl53l0x_init call, and how long ago it
    \* returned true: "at" (it was the last call), "next" (one call since),
    \* "later" (more, or never)
    init_args, since_init,
    \* the number of public driver functions entered so far
    calls,
    \* whether a bus transfer of the running (or last) function failed
    transfer_failed,
    \* the conversion of the Timing Model under study: its name, its inputs and,
    \* once applied, its result; the driver's runs leave it alone
    conv

vars == <<address, io_timeout, did_timeout, timeout_start_ms, stop_variable,
          measurement_timing_budget_us, sequence_config, regs, tick, pc, op, ret,
          log, expired, polled, range_read, init_args, since_init, calls,
          transfer_failed, conv>>

globals == <<address, io_timeout, did_timeout, timeout_start_ms, stop_variable,
             measurement_timing_budget_us>>

\* the driver and its sensor
driver == <<globals, sequence_config, regs, tick, pc, op, ret, log, expired,
            polled, range_read, init_args, since_init, calls, transfer_failed>>

(***************************************************************************)
(* Bounds and input sets                                                   *)
(***************************************************************************)
\* the tick source is observed at the instants TickAt(0..MaxTickIdx)
MaxTickIdx == 2
\* a run makes at most MaxCalls calls of the driver's public functions
MaxCalls == 3
\* the timeout the application passes to vl53l0x_init
AppTimeout == 500
AppAddress == \h29

\* 0, then in turn the last instant at which a poll begun at the previous
\* expiry has not expired under AppTimeout, and the first at which it has
TickAt(i) == ((i + 1) \div 2) * AppTimeout + (i \div 2)
TickVals == {TickAt(i) : i \in 0..MaxTickIdx}

Timeouts   == {0, AppTimeout}
Addresses  == {AppAddress}
NewAddrs   == {\h2A, \hAA}
\* signal rate limits in hundredths of a MCPS: -0.1, 0.1, 0.25, 511.99, 512.0
RateLimits == {-10, 10, 25, 51199, 51200}
\* timing budgets in microseconds; the last asks for a final range of 65500
\* MCLKs after vl53l0x_init, 36 short of 2^16 with the pre-range's 151 added
Budgets    == {0, 19999, 20000, 33000, 2514647}
VcselTypes == {VcselPeriodPreRange, VcselPeriodFinalRange, 2}
Periods    == {8, 10, 12, 13, 14, 16, 18, 20}
\* inter-measurement periods: none, and one whose product with the largest
\* calibration value exceeds 32 bits
PeriodsMs  == {0, 70000}
\* what the sensor may show in OSC_CALIBRATE_VAL
OscCalibrateVals == {\h0000, \h0002, \hFFFF}
\* what the sensor may show in RESULT_INTERRUPT_STATUS, SYSRANGE_START,
\* register 0x83 and the range result register when the driver reads them
StatusVals == {\h40, \h04}
StartVals  == {\h00, \h01}
SpadVals   == {\h00, \h01}
RangeVals  == {\h0102, 65535}

\* Power-on contents of the register file, by bank * 256 + register: the
\* stop variable, the SPAD info and map, the oscillator calibration
PowerOn ==
    (256 + \h91 :> \h3C) @@ (7 * 256 + \h92 :> \h85) @@
    (\hB0 :> \hFF) @@ (\hB1 :> \hF0) @@ (\hB2 :> \h0F) @@ (\hB3 :> \h00) @@
    (\hB4 :> \h00) @@ (\hB5 :> \h00) @@ (\hF8 :> \h00) @@ (\hF9 :> \h02)

B2I(b) == IF b THEN 1 ELSE 0

\* no conversion under study
NoConv == [f |-> "none", in |-> <<>>, out |-> <<>>]

DriverInit ==
    /\ address = 0
    /\ io_timeout = 0
    /\ did_timeout = FALSE
    /\ timeout_start_ms = 0
    /\ stop_variable = 0
    /\ measurement_timing_budget_us = 0
    /\ sequence_config = 0
    /\ regs = PowerOn
    /\ tick = 0
    /\ pc = "idle"
    /\ op = "none"
    /\ ret = 0
    /\ log = <<>>
    /\ expired = FALSE
    /\ polled = -1
    /\ range_read = -1
    /\ init_args = <<>>
    /\ since_init = "later"
    /\ calls = 0
    /\ transfer_failed = FALSE

Init == DriverInit /\ conv = NoConv

(***************************************************************************)
(* Timeout guard                                                           *)
(***************************************************************************)
\* startTimeout(): timeout_start_ms = bc_tick_get()
startTimeout == timeout_start_ms' = tick

\* checkTimeoutExpired() with the operands of its subtraction exchanged
checkTimeoutExpired_reversed ==
    io_timeout > 0 /\ (timeout_start_ms - tick) > io_timeout

\* checkTimeoutExpired() without its test of io_timeout
checkTimeoutExpired_unguarded ==
    (tick - timeout_start_ms) > io_timeout

\* checkTimeoutExpired()
checkTimeoutExpired ==
    io_timeout > 0 /\ (tick - timeout_start_ms) > io_timeout

\* the tick source moves on to a later instant.  bc_tick_get() is called
\* only inside a poll, so that is where the model lets time pass.
Tick ==
    /\ pc # "idle"
    /\ \E t \in TickVals : t > tick /\ tick' = t
    /\ UNCHANGED <<globals, sequence_config, regs, pc, op, ret, log, expired,
                   polled, range_read, init_args, calls, transfer_failed,
                   conv, since_init>>

\* the calls a run makes: with two calling contexts, one call more, so that
\* after vl53l0x_init one context can call twice and the other in between
CallLimit == IF conv.f = "contexts" THEN MaxCalls + 1 ELSE MaxCalls

\* a public function is entered: only from the idle driver, and the first
\* one entered is vl53l0x_init, as in application_init
Enter(name) ==
    /\ pc = "idle"
    /\ name = "init" \/ calls > 0
    /\ calls < CallLimit
    /\ calls' = calls + 1
    /\ transfer_failed' = FALSE
    /\ conv' = conv
    /\ op' = name
    /\ expired' = FALSE
    /\ polled' = -1
    /\ range_read' = -1
    /\ since_init' = IF since_init = "at" THEN "next" ELSE "later"

\* the bus as the entered function finds it
Bus0 == [m |-> regs, log |-> <<>>]
\* the bus as the running function has left it
BusC == [m |-> regs, log |-> log]

(***************************************************************************)
(* The conditions the polls wait for                                       *)
(***************************************************************************)
\* (RESULT_INTERRUPT_STATUS & 0x07) != 0
InterruptReady(v) == v % 8 # 0
\* !(SYSRANGE_START & 0x01)
StartBitClear(v) == v % 2 = 0
\* register 0x83 != 0x00
SpadInfoReady(v) == v # 0

(***************************************************************************)
(* vl53l0x_init                                                            *)
(***************************************************************************)
InitCall(addr, timeout, io_2v8) ==
    /\ Enter("init")
    /\ address' = addr
    /\ io_timeout' = timeout
    /\ did_timeout' = FALSE
    /\ LET d == InitDataInit(Bus0, io_2v8)
           s == getSpadInfoStart(d.s)
       IN  /\ stop_variable' = d.stop_variable
           /\ regs' = s.m
           /\ log' = s.log
    /\ startTimeout
    /\ pc' = "spad"
    /\ init_args' = <<addr, timeout, io_2v8>>
    /\ UNCHANGED <<measurement_timing_budget_us, sequence_config, tick, ret>>

SpadReady ==
    /\ pc = "spad"
    /\ \E v \in SpadVals :
        /\ SpadInfoReady(v)
        /\ polled' = v
    /\ LET f == getSpadInfoFinish(BusC)
           r == InitStaticInit(f.s, f.count, f.type_is_aperture)
       IN  /\ regs' = r.s.m
           /\ log' = r.s.log
           /\ measurement_timing_budget_us' = r.mtb
    /\ startTimeout
    /\ pc' = "vhv"
    /\ UNCHANGED <<address, io_timeout, did_timeout, stop_variable,
                   sequence_config, tick, op, ret, expired, range_read,
                   init_args, calls, transfer_failed, conv, since_init>>

\* getSpadInfo flagging its timeout the way the range reads do
SpadExpire_flags ==
    /\ pc = "spad"
    /\ \E v \in SpadVals :
        /\ ~SpadInfoReady(v)
        /\ polled' = v
    /\ checkTimeoutExpired
    /\ expired' = TRUE
    /\ did_timeout' = TRUE
    /\ ret' = 0
    /\ pc' = "idle"
    /\ UNCHANGED <<address, io_timeout, timeout_start_ms, stop_variable,
                   measurement_timing_budget_us, sequence_config, regs, tick,
                   op, log, range_read, init_args, calls, transfer_failed,
                   conv, since_init>>

\* getSpadInfo returns false, and so does vl53l0x_init
SpadExpire ==
    /\ pc = "spad"
    /\ \E v \in SpadVals :
        /\ ~SpadInfoReady(v)
        /\ polled' = v
    /\ checkTimeoutExpired
    /\ expired' = TRUE
    /\ ret' = 0
    /\ pc' = "idle"
    /\ UNCHANGED <<globals, sequence_config, regs, tick, op, log, range_read,
                   init_args, calls, transfer_failed, conv, since_init>>

SpadWait ==
    /\ pc = "spad"
    /\ \E v \in SpadVals : ~SpadInfoReady(v)
    /\ ~checkTimeoutExpired
    /\ UNCHANGED vars

\* vl53l0x_init running the VHV calibration a second time in place of the
\* phase calibration
VhvReady_repeats ==
    /\ pc = "vhv"
    /\ \E v \in StatusVals :
        /\ InterruptReady(v)
        /\ polled' = v
    /\ LET s1 == CalibrationFinish(BusC)
           s2 == vl53l0x_write_reg(s1, SYSTEM_SEQUENCE_CONFIG, \h01)
           s3 == CalibrationStart(s2, \h40)
       IN  /\ regs' = s3.m
           /\ log' = s3.log
    /\ startTimeout
    /\ pc' = "phase"
    /\ UNCHANGED <<address, io_timeout, did_timeout, stop_variable,
                   measurement_timing_budget_us, sequence_config, tick, op, ret,
                   expired, range_read, init_args, calls, transfer_failed, conv,
                   since_init>>

VhvReady ==
    /\ pc = "vhv"
    /\ \E v \in StatusVals :
        /\ InterruptReady(v)
        /\ polled' = v
    /\ LET s1 == CalibrationFinish(BusC)
           s2 == vl53l0x_write_reg(s1, SYSTEM_SEQUENCE_CONFIG, \h02)
           s3 == CalibrationStart(s2, \h00)
       IN  /\ regs' = s3.m
           /\ log' = s3.log
    /\ startTimeout
    /\ pc' = "phase"
    /\ UNCHANGED <<address, io_timeout, did_timeout, stop_variable,
                   measurement_timing_budget_us, sequence_config, tick, op,
                   ret, expired, range_read, init_args, calls,
                   transfer_failed, conv, since_init>>

PhaseReady ==
    /\ pc = "phase"
    /\ \E v \in StatusVals :
        /\ InterruptReady(v)
        /\ polled' = v
    /\ LET s1 == CalibrationFinish(BusC)
           s2 == vl53l0x_write_reg(s1, SYSTEM_SEQUENCE_CONFIG, \hE8)
       IN  /\ regs' = s2.m
           /\ log' = s2.log
    /\ ret' = 1
    /\ pc' = "idle"
    /\ since_init' = "at"
    /\ UNCHANGED <<globals, sequence_config, tick, op, expired, range_read,
                   init_args, calls, transfer_failed, conv>>

\* performSingleRefCalibration returns false, and so does vl53l0x_init
InitCalibrationExpire ==
    /\ pc \in {"vhv", "phase"}
    /\ \E v \in StatusVals :
        /\ ~InterruptReady(v)
        /\ polled' = v
    /\ checkTimeoutExpired
    /\ expired' = TRUE
    /\ ret' = 0
    /\ pc' = "idle"
    /\ UNCHANGED <<globals, sequence_config, regs, tick, op, log, range_read,
                   init_args, calls, transfer_failed, conv, since_init>>

CalibrationWait ==
    /\ pc \in {"vhv", "phase", "vcsel_cal"}
    /\ \E v \in StatusVals : ~InterruptReady(v)
    /\ ~checkTimeoutExpired
    /\ UNCHANGED vars

(***************************************************************************)
(* vl53l0x_set_vcsel_pulse_period                                          *)
(***************************************************************************)
SetVcselCall(type, period_pclks) ==
    /\ Enter("set_vcsel_pulse_period")
    /\ LET r == SetVcselRegisters(Bus0, type, period_pclks)
       IN  IF ~r.ok
           THEN /\ ret' = 0
                /\ pc' = "idle"
                /\ regs' = r.s.m
                /\ log' = r.s.log
                /\ UNCHANGED <<globals, sequence_config>>
           ELSE LET b  == vl53l0x_set_measurement_timing_budget(
                              r.s, measurement_timing_budget_us,
                              measurement_timing_budget_us)
                    sc == vl53l0x_read_reg(b.s.m, SYSTEM_SEQUENCE_CONFIG)
                    s2 == vl53l0x_write_reg(b.s, SYSTEM_SEQUENCE_CONFIG, \h02)
                    s3 == CalibrationStart(s2, \h00)
                IN  /\ measurement_timing_budget_us' = b.mtb
                    /\ sequence_config' = sc
                    /\ regs' = s3.m
                    /\ log' = s3.log
                    /\ startTimeout
                    /\ pc' = "vcsel_cal"
                    /\ UNCHANGED <<address, io_timeout, did_timeout,
                                   stop_variable, ret>>
    /\ UNCHANGED <<tick, init_args>>

VcselCalibrationReady ==
    /\ pc = "vcsel_cal"
    /\ \E v \in StatusVals :
        /\ InterruptReady(v)
        /\ polled' = v
    /\ LET s1 == CalibrationFinish(BusC)
           s2 == vl53l0x_write_reg(s1, SYSTEM_SEQUENCE_CONFIG, sequence_config)
       IN  /\ regs' = s2.m
           /\ log' = s2.log
    /\ ret' = 1
    /\ pc' = "idle"
    /\ UNCHANGED <<globals, sequence_config, tick, op, expired, range_read,
                   init_args, calls, transfer_failed, conv, since_init>>

\* a calibration timeout that set_vcsel_pulse_period passes on: it returns
\* false at once
VcselCalibrationExpire_passed_on ==
    /\ pc = "vcsel_cal"
    /\ \E v \in StatusVals :
        /\ ~InterruptReady(v)
        /\ polled' = v
    /\ checkTimeoutExpired
    /\ expired' = TRUE
    /\ ret' = 0
    /\ pc' = "idle"
    /\ UNCHANGED <<globals, sequence_config, regs, tick, op, log, range_read,
                   init_args, calls, transfer_failed, conv, since_init>>

\* performSingleRefCalibration returns false; its result is not looked at
VcselCalibrationExpire ==
    /\ pc = "vcsel_cal"
    /\ \E v \in StatusVals :
        /\ ~InterruptReady(v)
        /\ polled' = v
    /\ checkTimeoutExpired
    /\ expired' = TRUE
    /\ LET s1 == vl53l0x_write_reg(BusC, SYSTEM_SEQUENCE_CONFIG, sequence_config)
       IN  /\ regs' = s1.m
           /\ log' = s1.log
    /\ ret' = 1
    /\ pc' = "idle"
    /\ UNCHANGED <<globals, sequence_config, tick, op, range_read, init_args,
                   calls, transfer_failed, conv, since_init>>

(***************************************************************************)
(* Ranging                                                                 *)
(***************************************************************************)
\* a single-shot read that writes its start command before the stop_variable
\* restore sequence
ReadRangeSingleCall_start_first ==
    /\ Enter("read_range_single_millimeters")
    /\ LET s1 == vl53l0x_write_reg(Bus0, SYSRANGE_START, \h01)
           s2 == WriteAll(s1, StopVariableRestore(stop_variable))
       IN  /\ regs' = s2.m
           /\ log' = s2.log
    /\ startTimeout
    /\ pc' = "start"
    /\ UNCHANGED <<address, io_timeout, did_timeout, stop_variable,
                   measurement_timing_budget_us, sequence_config, tick, ret,
                   init_args>>

ReadRangeSingleCall ==
    /\ Enter("read_range_single_millimeters")
    /\ LET s1 == WriteAll(Bus0, StopVariableRestore(stop_variable))
           s2 == vl53l0x_write_reg(s1, SYSRANGE_START, \h01)
       IN  /\ regs' = s2.m
           /\ log' = s2.log
    /\ startTimeout
    /\ pc' = "start"
    /\ UNCHANGED <<address, io_timeout, did_timeout, stop_variable,
                   measurement_timing_budget_us, sequence_config, tick, ret,
                   init_args>>

\* a start bit poll that hands its deadline on to the interrupt poll
StartBitReady_keeps_deadline ==
    /\ pc = "start"
    /\ \E v \in StartVals :
        /\ StartBitClear(v)
        /\ polled' = v
    /\ pc' = "irq"
    /\ UNCHANGED <<address, io_timeout, did_timeout, timeout_start_ms,
                   stop_variable, measurement_timing_budget_us, sequence_config,
                   regs, tick, op, ret, log, expired, range_read, init_args,
                   calls, transfer_failed, conv, since_init>>

\* the start bit reads clear: on to vl53l0x_read_range_continuous_millimeters
StartBitReady ==
    /\ pc = "start"
    /\ \E v \in StartVals :
        /\ StartBitClear(v)
        /\ polled' = v
    /\ startTimeout
    /\ pc' = "irq"
    /\ UNCHANGED <<address, io_timeout, did_timeout, stop_variable,
                   measurement_timing_budget_us, sequence_config, regs, tick,
                   op, ret, log, expired, range_read, init_args, calls,
                   transfer_failed, conv, since_init>>

StartBitExpire ==
    /\ pc = "start"
    /\ \E v \in StartVals :
        /\ ~StartBitClear(v)
        /\ polled' = v
    /\ checkTimeoutExpired
    /\ expired' = TRUE
    /\ did_timeout' = TRUE
    /\ ret' = 65535
    /\ pc' = "idle"
    /\ UNCHANGED <<address, io_timeout, timeout_start_ms, stop_variable,
                   measurement_timing_budget_us, sequence_config, regs, tick,
                   op, log, range_read, init_args, calls, transfer_failed,
                   conv, since_init>>

StartBitWait ==
    /\ pc = "start"
    /\ \E v \in StartVals : ~StartBitClear(v)
    /\ ~checkTimeoutExpired
    /\ UNCHANGED vars

\* a read that resets the flag when it starts
ReadRangeContinuousCall_resets ==
    /\ Enter("read_range_continuous_millimeters")
    /\ did_timeout' = FALSE
    /\ log' = <<>>
    /\ startTimeout
    /\ pc' = "irq"
    /\ UNCHANGED <<address, io_timeout, stop_variable,
                   measurement_timing_budget_us, sequence_config, regs, tick,
                   ret, init_args>>

ReadRangeContinuousCall ==
    /\ Enter("read_range_continuous_millimeters")
    /\ log' = <<>>
    /\ startTimeout
    /\ pc' = "irq"
    /\ UNCHANGED <<address, io_timeout, did_timeout, stop_variable,
                   measurement_timing_budget_us, sequence_config, regs, tick,
                   ret, init_args>>

\* a read that starts the next measurement itself once it has its result
InterruptReadyStep_retriggers ==
    /\ pc = "irq"
    /\ \E v \in StatusVals :
        /\ InterruptReady(v)
        /\ polled' = v
    /\ \E range \in RangeVals :
        /\ range_read' = range
        /\ ret' = range
    /\ LET s1 == vl53l0x_write_reg(BusC, SYSTEM_INTERRUPT_CLEAR, \h01)
           s2 == vl53l0x_write_reg(s1, SYSRANGE_START, \h01)
       IN  /\ regs' = s2.m
           /\ log' = s2.log
    /\ pc' = "idle"
    /\ UNCHANGED <<globals, sequence_config, tick, op, expired, init_args,
                   calls, transfer_failed, conv, since_init>>

\* the range result register (RESULT_RANGE_STATUS + 10) is read, then the
\* interrupt is cleared
InterruptReadyStep ==
    /\ pc = "irq"
    /\ \E v \in StatusVals :
        /\ InterruptReady(v)
        /\ polled' = v
    /\ \E range \in RangeVals :
        /\ range_read' = range
        /\ ret' = range
    /\ LET s1 == vl53l0x_write_reg(BusC, SYSTEM_INTERRUPT_CLEAR, \h01)
       IN  /\ regs' = s1.m
           /\ log' = s1.log
    /\ pc' = "idle"
    /\ UNCHANGED <<globals, sequence_config, tick, op, expired, init_args,
                   calls, transfer_failed, conv, since_init>>

\* an expiry that returns the sentinel without setting the flag
InterruptExpire_silent ==
    /\ pc = "irq"
    /\ \E v \in StatusVals :
        /\ ~InterruptReady(v)
        /\ polled' = v
    /\ checkTimeoutExpired
    /\ expired' = TRUE
    /\ ret' = 65535
    /\ pc' = "idle"
    /\ UNCHANGED <<globals, sequence_config, regs, tick, op, log, range_read,
                   init_args, calls, transfer_failed, conv, since_init>>

InterruptExpire ==
    /\ pc = "irq"
    /\ \E v \in StatusVals :
        /\ ~InterruptReady(v)
        /\ polled' = v
    /\ checkTimeoutExpired
    /\ expired' = TRUE
    /\ did_timeout' = TRUE
    /\ ret' = 65535
    /\ pc' = "idle"
    /\ UNCHANGED <<address, io_timeout, timeout_start_ms, stop_variable,
                   measurement_timing_budget_us, sequence_config, regs, tick,
                   op, log, range_read, init_args, calls, transfer_failed,
                   conv, since_init>>

\* The transfer that reads RESULT_INTERRUPT_STATUS fails.  vl53l0x_read_reg
\* returns its local value whatever the transfer reported, so the poll goes
\* on with an indeterminate byte: one with none of the status bits set keeps
\* the loop polling, as in InterruptWait and InterruptExpire; one with a
\* status bit set ends the poll as if the sensor had raised the interrupt,
\* and the read returns the range result.
InterruptReadFails ==
    /\ pc = "irq"
    /\ transfer_failed' = TRUE
    /\ \E v \in StatusVals :
        /\ InterruptReady(v)
        /\ polled' = v
    /\ \E range \in RangeVals :
        /\ range_read' = range
        /\ ret' = range
    /\ LET s1 == vl53l0x_write_reg(BusC, SYSTEM_INTERRUPT_CLEAR, \h01)
       IN  /\ regs' = s1.m
           /\ log' = s1.log
    /\ pc' = "idle"
    /\ UNCHANGED <<globals, sequence_config, tick, op, expired, init_args,
                   calls, since_init, conv>>

InterruptWait ==
    /\ pc = "irq"
    /\ \E v \in StatusVals : ~InterruptReady(v)
    /\ ~checkTimeoutExpired
    /\ UNCHANGED vars

\* a start that programs the requested period as it is
StartContinuous_unscaled(period_ms) ==
    /\ Enter("start_continuous")
    /\ \E osc \in OscCalibrateVals :
        LET s1 == WriteAll(Bus0, StopVariableRestore(stop_variable))
            m1 == IF period_ms # 0 THEN SensorShows16(s1.m, OSC_CALIBRATE_VAL, osc)
                                   ELSE s1.m
            s2 == IF period_ms # 0
                  THEN vl53l0x_write_reg(
                         vl53l0x_write_reg32_bit([s1 EXCEPT !.m = m1],
                                                 SYSTEM_INTERMEASUREMENT_PERIOD,
                                                 Wide(period_ms)),
                         SYSRANGE_START, \h04)
                  ELSE vl53l0x_write_reg(s1, SYSRANGE_START, \h02)
        IN  /\ regs' = s2.m
            /\ log' = s2.log
    /\ ret' = 0
    /\ pc' = "idle"
    /\ UNCHANGED <<globals, sequence_config, tick, init_args>>

\* The oscillator calibration value is the sensor's: it is what the sensor
\* shows when the driver reads it, which the driver does only for a nonzero
\* period.
StartContinuous(period_ms) ==
    /\ Enter("start_continuous")
    /\ \E osc \in OscCalibrateVals :
        LET s1 == WriteAll(Bus0, StopVariableRestore(stop_variable))
            m1 == IF period_ms # 0 THEN SensorShows16(s1.m, OSC_CALIBRATE_VAL, osc)
                                   ELSE s1.m
            osc_calibrate_val == vl53l0x_read_reg16_bit(m1, OSC_CALIBRATE_VAL)
            scaled == IF osc_calibrate_val # 0
                      THEN Mul32(period_ms, osc_calibrate_val)
                      ELSE Wide(period_ms)
            s2 == IF period_ms # 0
                  THEN vl53l0x_write_reg(
                         vl53l0x_write_reg32_bit([s1 EXCEPT !.m = m1],
                                                 SYSTEM_INTERMEASUREMENT_PERIOD,
                                                 scaled),
                         SYSRANGE_START, \h04)
                  ELSE vl53l0x_write_reg(s1, SYSRANGE_START, \h02)
        IN  /\ regs' = s2.m
            /\ log' = s2.log
    /\ ret' = 0
    /\ pc' = "idle"
    /\ UNCHANGED <<globals, sequence_config, tick, init_args>>

\* a stop that also forgets the captured byte
StopContinuous_forgets ==
    /\ Enter("stop_continuous")
    /\ LET s1 == WriteAll(Bus0, << <<SYSRANGE_START, \h01>>, <<\hFF, \h01>>,
                                  <<\h00, \h00>>, <<\h91, \h00>>, <<\h00, \h01>>,
                                  <<\hFF, \h00>> >>)
       IN  /\ regs' = s1.m
           /\ log' = s1.log
    /\ stop_variable' = \h00
    /\ ret' = 0
    /\ pc' = "idle"
    /\ UNCHANGED <<address, io_timeout, did_timeout, timeout_start_ms,
                   measurement_timing_budget_us, sequence_config, tick, init_args>>

StopContinuous ==
    /\ Enter("stop_continuous")
    /\ LET s1 == WriteAll(Bus0, << <<SYSRANGE_START, \h01>>, <<\hFF, \h01>>,
                                  <<\h00, \h00>>, <<\h91, \h00>>, <<\h00, \h01>>,
                                  <<\hFF, \h00>> >>)
       IN  /\ regs' = s1.m
           /\ log' = s1.log
    /\ ret' = 0
    /\ pc' = "idle"
    /\ UNCHANGED <<globals, sequence_config, tick, init_args>>

\* a read of the flag that does not clear it
TimeoutOccurred_keeps ==
    /\ Enter("timeout_occurred")
    /\ ret' = B2I(did_timeout)
    /\ log' = <<>>
    /\ pc' = "idle"
    /\ UNCHANGED <<globals, sequence_config, regs, tick, init_args>>

TimeoutOccurred ==
    /\ Enter("timeout_occurred")
    /\ ret' = B2I(did_timeout)
    /\ did_timeout' = FALSE
    /\ log' = <<>>
    /\ pc' = "idle"
    /\ UNCHANGED <<address, io_timeout, timeout_start_ms, stop_variable,
                   measurement_timing_budget_us, sequence_config, regs, tick,
                   init_args>>

(***************************************************************************)
(* Configuration calls                                                     *)
(***************************************************************************)
SetTimeout(timeout) ==
    /\ Enter("set_timeout")
    /\ io_timeout' = timeout
    /\ ret' = 0
    /\ log' = <<>>
    /\ pc' = "idle"
    /\ UNCHANGED <<address, did_timeout, timeout_start_ms, stop_variable,
                   measurement_timing_budget_us, sequence_config, regs, tick,
                   init_args>>

SetAddress(new_addr) ==
    /\ Enter("set_address")
    /\ LET s1 == vl53l0x_write_reg(Bus0, I2C_SLAVE_DEVICE_ADDRESS, new_addr % 128)
       IN  /\ regs' = s1.m
           /\ log' = s1.log
    /\ address' = new_addr
    /\ ret' = 0
    /\ pc' = "idle"
    /\ UNCHANGED <<io_timeout, did_timeout, timeout_start_ms, stop_variable,
                   measurement_timing_budget_us, sequence_config, tick,
                   init_args>>

SetSignalRateLimit(limit_c) ==
    /\ Enter("set_signal_rate_limit")
    /\ LET r == vl53l0x_set_signal_rate_limit(Bus0, limit_c)
       IN  /\ regs' = r.s.m
           /\ log' = r.s.log
           /\ ret' = B2I(r.ok)
    /\ pc' = "idle"
    /\ UNCHANGED <<globals, sequence_config, tick, init_args>>

\* the value returned is the register's Q9.7 content: the limit times 128
GetSignalRateLimit ==
    /\ Enter("get_signal_rate_limit")
    /\ ret' = vl53l0x_read_reg16_bit(regs, FINAL_RANGE_CONFIG_MIN_COUNT_RATE_RTN_LIMIT)
    /\ log' = <<>>
    /\ pc' = "idle"
    /\ UNCHANGED <<globals, sequence_config, regs, tick, init_args>>

SetMeasurementTimingBudget(budget_us) ==
    /\ Enter("set_measurement_timing_budget")
    /\ LET r == vl53l0x_set_measurement_timing_budget(
                    Bus0, measurement_timing_budget_us, budget_us)
       IN  /\ regs' = r.s.m
           /\ log' = r.s.log
           /\ measurement_timing_budget_us' = r.mtb
           /\ ret' = B2I(r.ok)
    /\ pc' = "idle"
    /\ UNCHANGED <<address, io_timeout, did_timeout, timeout_start_ms,
                   stop_variable, sequence_config, tick, init_args>>

GetMeasurementTimingBudget ==
    /\ Enter("get_measurement_timing_budget")
    /\ LET budget_us == vl53l0x_get_measurement_timing_budget(regs)
       IN  /\ measurement_timing_budget_us' = budget_us
           /\ ret' = budget_us
    /\ log' = <<>>
    /\ pc' = "idle"
    /\ UNCHANGED <<address, io_timeout, did_timeout, timeout_start_ms,
                   stop_variable, sequence_config, regs, tick, init_args>>

GetVcselPulsePeriod(type) ==
    /\ Enter("get_vcsel_pulse_period")
    /\ ret' = vl53l0x_get_vcsel_pulse_period(regs, type)
    /\ log' = <<>>
    /\ pc' = "idle"
    /\ UNCHANGED <<globals, sequence_config, regs, tick, init_args>>

(***************************************************************************)
(* Specification                                                           *)
(***************************************************************************)
Next ==
    \/ Tick
    \/ \E a \in Addresses, t \in Timeouts, v \in BOOLEAN : InitCall(a, t, v)
    \/ SpadReady
    \/ SpadExpire
    \/ SpadWait
    \/ VhvReady
    \/ PhaseReady
    \/ InitCalibrationExpire
    \/ CalibrationWait
    \/ \E ty \in VcselTypes, p \in Periods : SetVcselCall(ty, p)
    \/ VcselCalibrationReady
    \/ VcselCalibrationExpire
    \/ ReadRangeSingleCall
    \/ StartBitReady
    \/ StartBitExpire
    \/ StartBitWait
    \/ ReadRangeContinuousCall
    \/ InterruptReadyStep
    \/ InterruptExpire
    \/ InterruptReadFails
    \/ InterruptWait
    \/ \E p \in PeriodsMs : StartContinuous(p)
    \/ StopContinuous
    \/ TimeoutOccurred
    \/ \E t \in Timeouts : SetTimeout(t)
    \/ \E a \in NewAddrs : SetAddress(a)
    \/ \E l \in RateLimits : SetSignalRateLimit(l)
    \/ GetSignalRateLimit
    \/ \E b \in Budgets : SetMeasurementTimingBudget(b)
    \/ GetMeasurementTimingBudget
    \/ \E ty \in VcselTypes : GetVcselPulsePeriod(ty)

Spec == Init /\ [][Next]_vars


\* The tick source keeps advancing while a poll runs, and a poll loop that
\* finds its deadline passed takes its expiry branch.  Nothing obliges the
\* sensor ever to change the polled register.
LiveSpec ==
    /\ Init /\ [][Next]_vars
    /\ WF_vars(Tick)
    /\ WF_vars(SpadExpire)
    /\ WF_vars(InitCalibrationExpire)
    /\ WF_vars(VcselCalibrationExpire)
    /\ WF_vars(StartBitExpire)
    /\ WF_vars(InterruptExpire)

(***************************************************************************)
(* The Timing Model's conversions, applied to inputs from bounded sets     *)
(***************************************************************************)
\* the largest uint16_t and the largest uint8_t
U16Max == 65535
U8Max == 255

\* the VCSEL periods set_vcsel_pulse_period accepts
ValidPeriods == {8, 10, 12, 14, 16, 18}
\* timeouts in MCLKs, as decodeTimeout returns them
MclkSamples == {0, 1, 1000, 32768, 62500, U16Max}
\* final-range timeouts in microseconds, as set_measurement_timing_budget
\* passes them on
MicrosecondSamples == {0, 17000, 1000000, 2499000, 4294967, 4294968, 5000000}

\* SYSTEM_SEQUENCE_CONFIG values: what vl53l0x_init leaves (0xE8) and writes on
\* its way (0xFF, 0x01, 0x02), and steps enabled one by one with and without
\* the final range
SequenceConfigs == {\h01, \h02, \h68, \h80, \h84, \h8C, \h90, \hC0, \hE8, \hFF}
\* MSRC_CONFIG_TIMEOUT_MACROP: the tuning table's value and the largest
MsrcTimeoutRegs == {\h25, \hFF}
\* PRE_RANGE_CONFIG_TIMEOUT_MACROP: the tuning table's value (151 MCLKs) and
\* 1021 MCLKs, which alone take more than 33000 microseconds
PreRangeTimeoutRegs == {\h0096, \h02FF}
\* budgets at and above the minimum
BudgetSamples == {20000, 25000, 33000, 100000}

\* a register file with the given sequence configuration and timeouts, and
\* otherwise the VCSEL periods and the final-range timeout of the tuning table
TimingRegisters(c, msrc, pre) ==
    SensorShows16(
        SensorShows16(
            (SYSTEM_SEQUENCE_CONFIG :> c) @@ (MSRC_CONFIG_TIMEOUT_MACROP :> msrc)
                @@ (PRE_RANGE_CONFIG_VCSEL_PERIOD :> \h06)
                @@ (FINAL_RANGE_CONFIG_VCSEL_PERIOD :> \h04),
            PRE_RANGE_CONFIG_TIMEOUT_MACROP_HI, pre),
        FINAL_RANGE_CONFIG_TIMEOUT_MACROP_HI, \h01FE)

ConvInputs ==
    {[f |-> "encodeTimeout", in |-> <<t>>] : t \in 0..U16Max}
    \cup {[f |-> "calcMacroPeriod", in |-> <<p, p + 1>>] : p \in 0..(U8Max - 1)}
    \cup {[f |-> "timeoutMclksToMicroseconds", in |-> <<m, p>>] :
              m \in MclkSamples, p \in ValidPeriods}
    \cup {[f |-> "timeoutMicrosecondsToMclks", in |-> <<us, p>>] :
              us \in MicrosecondSamples, p \in ValidPeriods}
    \cup {[f |-> "getSequenceStepEnables", in |-> <<v>>] : v \in 0..U8Max}
    \cup {[f |-> "timing_budget", in |-> <<c, msrc, pre, b>>] :
              c \in SequenceConfigs, msrc \in MsrcTimeoutRegs,
              pre \in PreRangeTimeoutRegs, b \in BudgetSamples}

TimingInit ==
    /\ DriverInit
    /\ \E c \in ConvInputs : conv = [f |-> c.f, in |-> c.in, out |-> <<>>]

Applies(f) == conv.f = f /\ conv.out = <<>> /\ UNCHANGED driver

\* a timeout is encoded for its register and decoded again
EncodeDecode ==
    /\ Applies("encodeTimeout")
    /\ LET reg_val == encodeTimeout(conv.in[1])
       IN  conv' = [conv EXCEPT !.out = <<reg_val, decodeTimeout(reg_val)>>]

\* the macro periods of two successive VCSEL periods
MacroPeriods ==
    /\ Applies("calcMacroPeriod")
    /\ conv' = [conv EXCEPT !.out = <<calcMacroPeriod(conv.in[1]),
                                      calcMacroPeriod(conv.in[2])>>]

\* a timeout in MCLKs is converted to microseconds; the result comes with
\* whether an intermediate exceeded 32 bits
MclksToMicroseconds ==
    /\ Applies("timeoutMclksToMicroseconds")
    /\ conv' = [conv EXCEPT !.out =
                   <<timeoutMclksToMicroseconds(conv.in[1], conv.in[2]),
                     timeoutMclksToMicrosecondsWraps(conv.in[1], conv.in[2])>>]

\* a timeout in microseconds is converted to MCLKs and stored in the uint16_t
\* final_range_timeout_mclks, as in vl53l0x_set_measurement_timing_budget; the
\* result comes with whether an intermediate exceeded 32 bits and whether the
\* store cut the value
MicrosecondsToMclks ==
    /\ Applies("timeoutMicrosecondsToMclks")
    /\ LET mclks == timeoutMicrosecondsToMclks(conv.in[1], conv.in[2])
       IN  conv' = [conv EXCEPT !.out =
                       <<U16(mclks),
                         timeoutMicrosecondsToMclksWraps(conv.in[1], conv.in[2]),
                         mclks > U16Max>>]

\* the sequence step enables are decoded from a register file whose
\* SYSTEM_SEQUENCE_CONFIG holds the input
SequenceStepEnables ==
    /\ Applies("getSequenceStepEnables")
    /\ conv' = [conv EXCEPT !.out =
                   <<getSequenceStepEnables(SYSTEM_SEQUENCE_CONFIG :> conv.in[1])>>]

\* the timing budget is read from a register file and then set on it; the
\* result is what the getter returned, what the setter returned, the writes
\* it made and the budget it cached
TimingBudget ==
    /\ Applies("timing_budget")
    /\ LET m == TimingRegisters(conv.in[1], conv.in[2], conv.in[3])
           r == vl53l0x_set_measurement_timing_budget(
                    [m |-> m, log |-> <<>>], 0, conv.in[4])
       IN  conv' = [conv EXCEPT !.out =
                       <<vl53l0x_get_measurement_timing_budget(m),
                         r.ok, r.s.log, r.mtb>>]

TimingNext ==
    \/ EncodeDecode
    \/ MacroPeriods
    \/ MclksToMicroseconds
    \/ MicrosecondsToMclks
    \/ SequenceStepEnables
    \/ TimingBudget

TimingSpec == TimingInit /\ [][TimingNext]_vars

(***************************************************************************)
(* Two calling contexts on the one driver.  The driver keeps its state in  *)
(* file-scope variables and takes no lock, so the calls of the two         *)
(* contexts act on the same did_timeout.  conv.in holds the context that   *)
(* is running and conv.out the calls that have returned, in order, each    *)
(* with the context that made it.                                          *)
(***************************************************************************)
Contexts == {"A", "B"}

SharedInit ==
    /\ DriverInit
    /\ conv = [f |-> "contexts", in |-> <<"A">>, out |-> <<>>]

\* every call that has returned has been taken by its caller
Returned == Len(conv.out) = calls

\* the call returns to the context that made it, and the next context to run
\* is either of the two
Resume ==
    /\ pc = "idle"
    /\ ~Returned
    /\ \E c \in Contexts :
        conv' = [conv EXCEPT
                    !.in = <<c>>,
                    !.out = Append(@, [ctx |-> conv.in[1], op |-> op, ret |-> ret,
                                       expired |-> expired])]
    /\ UNCHANGED driver

SharedNext ==
    \/ Tick
    \/ Returned /\ \E t \in Timeouts : InitCall(AppAddress, t, FALSE)
    \/ SpadReady
    \/ SpadExpire
    \/ VhvReady
    \/ PhaseReady
    \/ InitCalibrationExpire
    \/ Returned /\ ReadRangeContinuousCall
    \/ InterruptReadyStep
    \/ InterruptExpire
    \/ Returned /\ TimeoutOccurred
    \/ Resume

SharedSpec == SharedInit /\ [][SharedNext]_vars

(***************************************************************************)
(* Properties                                                              *)
(***************************************************************************)
RangeReads == {"read_range_single_millimeters", "read_range_continuous_millimeters"}

\* the condition the poll at p waits for, on the value v read last
PollCondition(p, v) ==
    CASE p = "spad"  -> SpadInfoReady(v)
      [] p = "start" -> StartBitClear(v)
      [] OTHER       -> InterruptReady(v)

\* a step that ends the running poll
PollEnds == pc # "idle" /\ pc' # pc

\* ... although the value read last does not satisfy the poll's condition
EndsByExpiry == PollEnds /\ ~PollCondition(pc, polled')

\* a step that is a whole call of the public function name
Calls(name) == pc = "idle" /\ calls' = calls + 1 /\ op' = name

\* a step on which a range read returns
ReadReturns == pc \in {"start", "irq"} /\ pc' = "idle"

\* C1: vl53l0x_timeout_occurred() returns the value did_timeout had on entry
\* and leaves it false; did_timeout becomes true only when a poll of a range
\* read expires, so the calls after the first return false until then.
C1_ReadAndClear ==
    [][ /\ Calls("timeout_occurred") =>
            ret' = B2I(did_timeout) /\ ~did_timeout'
        /\ (~did_timeout /\ did_timeout') =>
            (pc \in {"start", "irq"} /\ EndsByExpiry) ]_vars

C1_Witness ==
    op = "timeout_occurred" /\ pc = "idle" /\ ret = 1 /\ ~did_timeout

\* C2: a range read entered with did_timeout false leaves it true exactly when
\* the poll it returns from ended by deadline expiry, and then returns 65535;
\* otherwise it returns the 16-bit value read from the range result register.
C2_ReadTimeout ==
    [][ (ReadReturns /\ ~did_timeout) =>
            /\ did_timeout' <=> EndsByExpiry
            /\ EndsByExpiry => ret' = 65535
            /\ ~EndsByExpiry => (ret' = range_read' /\ range_read' \in 0..65535)
      ]_vars

C2_Witness ==
    /\ op = "read_range_single_millimeters" /\ pc = "idle"
    /\ expired /\ did_timeout /\ ret = 65535

\* C3 as stated: every poll that exceeds its deadline sets did_timeout.
C3_EveryPollFlags == [][EndsByExpiry => did_timeout']_vars

\* C3, amended: the polls of the range reads set did_timeout on expiry; the
\* calibration poll and the SPAD-info poll end on expiry leaving did_timeout
\* as it was.
C3_ReadPollsFlag ==
    [][ EndsByExpiry =>
            IF pc \in {"start", "irq"} THEN did_timeout'
            ELSE did_timeout' = did_timeout ]_vars

C3_Witness ==
    /\ op \in {"init", "set_vcsel_pulse_period"} /\ pc = "idle"
    /\ expired /\ ~did_timeout

\* C4 as stated: once true, did_timeout is cleared by no operation but
\* vl53l0x_timeout_occurred().
C4_OnlyConsumeClears ==
    [][ (did_timeout /\ ~did_timeout') => Calls("timeout_occurred") ]_vars

\* C4, amended: once true, did_timeout stays true until
\* vl53l0x_timeout_occurred() or vl53l0x_init() is called.
C4_Sticky ==
    [][ (did_timeout /\ ~did_timeout') =>
            (Calls("timeout_occurred") \/ Calls("init")) ]_vars

C4_Witness ==
    /\ did_timeout /\ pc = "idle"
    /\ op \notin RangeReads \cup {"init", "timeout_occurred"}

\* C5: with io_timeout = 0 a poll ends only on a value that satisfies its
\* condition: did_timeout is not set, no poll of vl53l0x_init fails.
C5_ZeroDisables ==
    [][ (io_timeout = 0 /\ PollEnds) =>
            /\ PollCondition(pc, polled')
            /\ did_timeout' = did_timeout
            /\ ~expired'
            /\ (op \in RangeReads /\ pc' = "idle") => ret' = range_read'
            /\ (op = "init" /\ pc' = "idle") => ret' = 1 ]_vars

C5_Witness ==
    /\ io_timeout = 0 /\ op \in RangeReads /\ pc = "idle"
    /\ tick - timeout_start_ms > AppTimeout /\ ret = range_read

Polls == {"spad", "vhv", "phase", "vcsel_cal", "start", "irq"}

\* the tick source can still pass the deadline of the running poll
DeadlineAhead == timeout_start_ms + io_timeout < TickAt(MaxTickIdx)

\* C6: with io_timeout > 0 and a tick source that keeps advancing, every
\* blocking poll eventually ends, whatever the sensor does.
C6_PollsEnd ==
    \A p \in Polls :
        (pc = p /\ io_timeout > 0 /\ DeadlineAhead) ~> (pc # p)

C6_Witness ==
    /\ pc = "idle" /\ expired /\ io_timeout > 0
    /\ polled \in {v \in StatusVals : ~InterruptReady(v)}
    /\ tick > timeout_start_ms + io_timeout

Validators ==
    {"set_signal_rate_limit", "set_measurement_timing_budget",
     "set_vcsel_pulse_period"}

\* C7: a call of set_signal_rate_limit, set_measurement_timing_budget or
\* set_vcsel_pulse_period that returns false has written no register and has
\* left measurement_timing_budget_us, stop_variable, did_timeout and address
\* as they were.
C7_FailureLeavesState ==
    [][ (\E name \in Validators : Calls(name) /\ pc' = "idle" /\ ret' = 0) =>
            /\ log' = <<>>
            /\ regs' = regs
            /\ UNCHANGED <<measurement_timing_budget_us, stop_variable,
                           did_timeout, address>> ]_vars

C7_Witness ==
    /\ op = "set_vcsel_pulse_period" /\ pc = "idle" /\ ret = 0
    /\ since_init = "next" /\ log = <<>>

\* C8: set_measurement_timing_budget fails for every budget below 20000, and
\* right after a successful vl53l0x_init set_measurement_timing_budget(20000)
\* succeeds.
C8_MinimumBudget ==
    [][ \A b \in Budgets :
            SetMeasurementTimingBudget(b) =>
                /\ b < 20000 => ret' = 0
                /\ (b = 20000 /\ since_init = "at") => ret' = 1 ]_vars

C8_Witness ==
    /\ op = "set_measurement_timing_budget" /\ pc = "idle" /\ ret = 1
    /\ since_init = "next" /\ measurement_timing_budget_us = 20000

ValidPeriod(type, period_pclks) ==
    \/ type = VcselPeriodPreRange /\ period_pclks \in {12, 14, 16, 18}
    \/ type = VcselPeriodFinalRange /\ period_pclks \in {8, 10, 12, 14}

\* C9: set_vcsel_pulse_period(type, p) returns true exactly for a pre-range
\* period in {12,14,16,18} or a final-range period in {8,10,12,14}: any other
\* call returns false at once, and a call that goes on to its calibration
\* returns true.
C9_ValidPeriods ==
    [][ /\ \A ty \in VcselTypes, p \in Periods :
              SetVcselCall(ty, p) =>
                  IF ValidPeriod(ty, p) THEN pc' = "vcsel_cal"
                  ELSE pc' = "idle" /\ ret' = 0
        /\ (pc = "vcsel_cal" /\ pc' = "idle") => ret' = 1 ]_vars

C9_Witness ==
    /\ op = "set_vcsel_pulse_period" /\ pc = "idle" /\ ret = 1
    /\ vl53l0x_get_vcsel_pulse_period(regs, VcselPeriodFinalRange) = 8

\* the call the application makes: vl53l0x_init(0x29, 500, false)
AppInit == <<AppAddress, AppTimeout, FALSE>>

\* C10 as stated: right after vl53l0x_init(0x29, 500, false) has returned
\* true, get_measurement_timing_budget() returns a value within 33000 +- 500.
C10_Near33000 ==
    [][ (GetMeasurementTimingBudget /\ since_init = "at" /\ init_args = AppInit)
            => ret' \in 32500..33500 ]_vars

\* C10, amended: there get_measurement_timing_budget() returns 34529, and the
\* budget vl53l0x_init had computed and cached is 33971.
C10_After_Init ==
    [][ (GetMeasurementTimingBudget /\ since_init = "at" /\ init_args = AppInit)
            => (ret' = 34529 /\ measurement_timing_budget_us = 33971) ]_vars

C10_Witness ==
    /\ op = "get_measurement_timing_budget" /\ pc = "idle"
    /\ since_init = "next" /\ init_args = AppInit /\ ret = 34529

\* the Q9.7 content of the final-range minimum count-rate register
RateLimitRegister(m) ==
    vl53l0x_read_reg16_bit(m, FINAL_RANGE_CONFIG_MIN_COUNT_RATE_RTN_LIMIT)

\* C11: set_signal_rate_limit fails below 0 and above 511.99 MCPS; otherwise
\* its one write puts the limit times 128, truncated, in the final-range
\* minimum count-rate register, so that register / 128 is at most the limit
\* and less than 1/128 below it (0.25 is stored as 32); get_signal_rate_limit
\* returns that register's content.
C11_SignalRateLimit ==
    [][ /\ \A l \in RateLimits :
              SetSignalRateLimit(l) =>
                  IF l < 0 \/ l > 51199
                  THEN ret' = 0 /\ log' = <<>>
                  ELSE /\ ret' = 1
                       /\ Len(log') = 1
                       /\ log'[1] = <<FINAL_RANGE_CONFIG_MIN_COUNT_RATE_RTN_LIMIT,
                                      RateLimitRegister(regs')>>
                       /\ 100 * RateLimitRegister(regs') <= 128 * l
                       /\ 128 * l < 100 * (RateLimitRegister(regs') + 1)
                       /\ l = 25 => RateLimitRegister(regs') = 32
        /\ GetSignalRateLimit => ret' = RateLimitRegister(regs) ]_vars

C11_Witness ==
    /\ op = "get_signal_rate_limit" /\ pc = "idle" /\ ret = 65534
    /\ RateLimitRegister(regs) = 65534

\* C12: after set_address(a) the address the driver holds, which every later
\* register transfer uses, is a & 0x7F, the value written to the sensor's
\* device-address register.
C12_SevenBitAddress ==
    [][ \A a \in NewAddrs :
            SetAddress(a) =>
                /\ address' = a % 128
                /\ address' = vl53l0x_read_reg(regs', I2C_SLAVE_DEVICE_ADDRESS) ]_vars

\* the registers of a measurement start: SYSRANGE_START and those of the
\* stop_variable restore sequence
StartRegisters == {SYSRANGE_START, BANK_SELECT, \h80, \h91}

\* a step of a call of read_range_continuous_millimeters
ContinuousReadStep ==
    /\ op' = "read_range_continuous_millimeters"
    /\ Calls("read_range_continuous_millimeters") \/ pc = "irq"

\* C13: a continuous read never starts a measurement: no step of it writes
\* SYSRANGE_START or a register of the stop_variable restore sequence, and
\* SYSRANGE_START keeps the mode start_continuous gave it; a read that
\* succeeds writes the interrupt clear and nothing else and returns the value
\* read from the range result register; a read that times out writes nothing.
C13_NoRetrigger ==
    [][ ContinuousReadStep =>
            /\ \A i \in 1..Len(log') : log'[i][1] \notin StartRegisters
            /\ vl53l0x_read_reg(regs', SYSRANGE_START)
                   = vl53l0x_read_reg(regs, SYSRANGE_START)
            /\ (pc' = "idle" /\ ~EndsByExpiry) =>
                   /\ log' = << <<SYSTEM_INTERRUPT_CLEAR, \h01>> >>
                   /\ ret' = range_read' /\ range_read' \in RangeVals
            /\ (pc' = "idle" /\ EndsByExpiry) =>
                   /\ log' = <<>> /\ regs' = regs ]_vars

C13_Witness ==
    /\ op = "read_range_continuous_millimeters" /\ pc = "idle" /\ ~expired
    /\ vl53l0x_read_reg(regs, SYSRANGE_START) = \h02
    /\ ret = \h0102 /\ log = << <<SYSTEM_INTERRUPT_CLEAR, \h01>> >>

\* C14: when a transfer of the Register Transport fails during an operation,
\* the operation stops there, issuing no further write, and reports failure
\* (for a range read, the 65535 sentinel) instead of going on with the value
\* the failed read left.
C14_FailurePropagates ==
    [][ (transfer_failed' /\ ~transfer_failed) =>
            /\ pc' = "idle"
            /\ log' = log
            /\ op' \in RangeReads => ret' = 65535 ]_vars

\* the conversion f has been applied
Applied(f) == conv.f = f /\ conv.out # <<>>

\* C15: for every 16-bit timeout t from 1 to 65535,
\* decodeTimeout(encodeTimeout(t)) is at most t.
C15_RoundTrip ==
    (Applied("encodeTimeout") /\ conv.in[1] >= 1) => conv.out[2] <= conv.in[1]

C15_Witness ==
    /\ Applied("encodeTimeout") /\ conv.in = <<U16Max>>
    /\ conv.out = <<\h08FF, 65281>>

\* C16: no conversion of the Timing Model wraps: no 32-bit intermediate of
\* timeoutMclksToMicroseconds or of timeoutMicrosecondsToMclks overflows, and
\* the MCLK count is not cut by its 16-bit store.
C16_NoWrap ==
    /\ Applied("timeoutMclksToMicroseconds") => ~conv.out[2]
    /\ Applied("timeoutMicrosecondsToMclks") => (~conv.out[2] /\ ~conv.out[3])

\* C17: calcMacroPeriod is strictly increasing over the 8-bit periods, and is
\* (2304 * pclks * 1655 + 500) / 1000 with the dividend below 2^32.
C17_MacroPeriodIncreases ==
    Applied("calcMacroPeriod") =>
        /\ conv.out[1] < conv.out[2]
        /\ \A i \in 1..2 :
              /\ conv.out[i] = (2304 * conv.in[i] * 1655 + 500) \div 1000
              /\ (2304 * conv.in[i] * 1655 + 500) \div 65536 < 65536

C17_Witness ==
    /\ Applied("calcMacroPeriod") /\ conv.in = <<U8Max - 1, U8Max>>
    /\ conv.out = <<968532, 972346>>

CalibrationPolls == {"vhv", "phase", "vcsel_cal"}

\* the start command of the calibration whose poll is p
StartCommand(p) == IF p = "vhv" THEN \h41 ELSE \h01

\* the writes of this step, the log being extended by it
NewWrites == SubSeq(log', Len(log) + 1, Len(log'))

\* C18: a calibration's start command (0x01 | vhv_init_byte) is the last write
\* before its poll; the poll is left with the low three status bits seen
\* non-zero exactly when the next writes are the interrupt clear and then 0 to
\* SYSRANGE_START, and the calibration returns true; when the deadline
\* expires first, performSingleRefCalibration writes nothing more (in
\* vl53l0x_init, which returns false, nothing at all is written).
C18_CalibrationOrder ==
    [][ /\ (pc' \in CalibrationPolls /\ pc' # pc) =>
               /\ log' # <<>>
               /\ log'[Len(log')] = <<SYSRANGE_START, StartCommand(pc')>>
        /\ (pc \in CalibrationPolls /\ PollEnds) =>
               /\ Len(log') >= Len(log)
               /\ SubSeq(log', 1, Len(log)) = log
               /\ IF InterruptReady(polled')
                  THEN /\ Len(NewWrites) >= 2
                       /\ NewWrites[1] = <<SYSTEM_INTERRUPT_CLEAR, \h01>>
                       /\ NewWrites[2] = <<SYSRANGE_START, \h00>>
                       /\ pc' = "idle" => ret' = 1
                       /\ pc = "vhv" => pc' = "phase"
                  ELSE /\ expired'
                       /\ pc' = "idle"
                       /\ \A i \in 1..Len(NewWrites) :
                             NewWrites[i][1] \notin {SYSTEM_INTERRUPT_CLEAR,
                                                     SYSRANGE_START}
                       /\ op = "init" => (ret' = 0 /\ log' = log) ]_vars

C18_Witness ==
    /\ op = "set_vcsel_pulse_period" /\ pc = "idle" /\ ~expired /\ ret = 1
    /\ Len(log) >= 4
    /\ log[Len(log) - 3] = <<SYSRANGE_START, \h01>>
    /\ log[Len(log) - 2] = <<SYSTEM_INTERRUPT_CLEAR, \h01>>
    /\ log[Len(log) - 1] = <<SYSRANGE_START, \h00>>

\* the places of the log l at which the tuning sequence starts
TuningStarts(l) ==
    {i \in 1..(Len(l) - Len(DefaultTuningSettings) + 1) :
        SubSeq(l, i, i + Len(DefaultTuningSettings) - 1) = DefaultTuningSettings}

\* what vl53l0x_init writes once the interrupt configuration that follows
\* the tuning sequence is done, final_range_timeout being the encoded timeout
\* the re-applied budget leaves the final range
AfterTuning(final_range_timeout) ==
    << <<SYSTEM_SEQUENCE_CONFIG, \hE8>>,
       <<FINAL_RANGE_CONFIG_TIMEOUT_MACROP_HI, final_range_timeout>>,
       <<SYSTEM_SEQUENCE_CONFIG, \h01>>, <<SYSRANGE_START, \h41>>,
       <<SYSTEM_INTERRUPT_CLEAR, \h01>>, <<SYSRANGE_START, \h00>>,
       <<SYSTEM_SEQUENCE_CONFIG, \h02>>, <<SYSRANGE_START, \h01>>,
       <<SYSTEM_INTERRUPT_CLEAR, \h01>>, <<SYSRANGE_START, \h00>>,
       <<SYSTEM_SEQUENCE_CONFIG, \hE8>> >>

\* a step on which vl53l0x_init returns
InitReturns == op = "init" /\ pc # "idle" /\ pc' = "idle"

\* C19: a vl53l0x_init that returns true has written the tuning sequence
\* once, then (after the interrupt configuration) the sequence config 0xE8
\* and the final-range timeout of the re-applied budget, then the VHV
\* calibration (sequence config 0x01, start command 0x41) and the phase
\* calibration (sequence config 0x02, start command 0x01), each finished by
\* its interrupt clear and stop, and last the sequence config 0xE8, which the
\* register then holds; it returns true only if none of its polls timed out,
\* and a poll of it that times out makes it return false.
C19_InitOrder ==
    [][ InitReturns =>
            /\ ret' = 1 =>
                  /\ ~expired' /\ pc = "phase"
                  /\ Cardinality(TuningStarts(log')) = 1
                  /\ \A i \in TuningStarts(log') :
                        SubSeq(log', i + Len(DefaultTuningSettings) + 3, Len(log'))
                            = AfterTuning(vl53l0x_read_reg16_bit(
                                  regs', FINAL_RANGE_CONFIG_TIMEOUT_MACROP_HI))
                  /\ vl53l0x_read_reg(regs', SYSTEM_SEQUENCE_CONFIG) = \hE8
                  /\ measurement_timing_budget_us' > 0
            /\ EndsByExpiry => ret' = 0 ]_vars

C19_Witness ==
    /\ op = "init" /\ pc = "idle" /\ ret = 1 /\ ~expired /\ since_init = "at"
    /\ vl53l0x_read_reg(regs, SYSTEM_SEQUENCE_CONFIG) = \hE8
    /\ Cardinality(TuningStarts(log)) = 1

\* the places of the log l at which vl53l0x_init sets the bits of
\* MSRC_CONFIG_CONTROL, writes the signal-rate limit, enables every step
DisablingWrites(l) ==
    {j \in 1..Len(l) :
        \/ l[j][1] = MSRC_CONFIG_CONTROL /\ BitOf(l[j][2], 1) = 1
                                         /\ BitOf(l[j][2], 4) = 1
        \/ l[j] = <<FINAL_RANGE_CONFIG_MIN_COUNT_RATE_RTN_LIMIT, 32>>
        \/ l[j] = <<SYSTEM_SEQUENCE_CONFIG, \hFF>>}

\* C20: in a vl53l0x_init that returns true, the bit-set of
\* MSRC_CONFIG_CONTROL, the write of the 0.25 MCPS limit and the write that
\* enables every step come after the tuning sequence, and on return
\* MSRC_CONFIG_CONTROL has bits 1 and 4 set and the limit register holds
\* 0.25 MCPS.
C20_AfterTuning ==
    [][ (InitReturns /\ ret' = 1) =>
            /\ Cardinality(DisablingWrites(log')) = 3
            /\ \A i \in TuningStarts(log'), j \in DisablingWrites(log') :
                  j >= i + Len(DefaultTuningSettings)
            /\ BitOf(vl53l0x_read_reg(regs', MSRC_CONFIG_CONTROL), 1) = 1
            /\ BitOf(vl53l0x_read_reg(regs', MSRC_CONFIG_CONTROL), 4) = 1
            /\ RateLimitRegister(regs') = 32 ]_vars

\* C21: read_range_single_millimeters writes the stop_variable restore
\* sequence and then SYSRANGE_START = 0x01 before its start-bit poll; it goes
\* on to the continuous-read part only from that poll, with the start bit
\* seen clear; when the start-bit poll times out it returns 65535 having read
\* no range result and written nothing since the start command.
C21_SingleShotOrder ==
    [][ /\ Calls("read_range_single_millimeters") =>
               /\ log' = StopVariableRestore(stop_variable)
                             \o << <<SYSRANGE_START, \h01>> >>
               /\ pc' = "start" /\ range_read' = -1
        /\ (op = "read_range_single_millimeters" /\ pc # "idle"
                /\ pc' = "irq" /\ pc # "irq") =>
               /\ pc = "start" /\ StartBitClear(polled')
               /\ log' = log /\ range_read' = -1
        /\ (pc = "start" /\ PollEnds /\ ~StartBitClear(polled')) =>
               /\ pc' = "idle" /\ ret' = 65535 /\ expired'
               /\ range_read' = -1
               /\ log' = log /\ regs' = regs
        /\ (op = "read_range_single_millimeters" /\ pc # "idle"
                /\ range_read' # range_read) => pc = "irq" ]_vars

C21_Witness ==
    /\ op = "read_range_single_millimeters" /\ pc = "idle" /\ expired
    /\ ~StartBitClear(polled) /\ polled \in StartVals
    /\ ret = 65535 /\ range_read = -1
    /\ log = StopVariableRestore(stop_variable) \o << <<SYSRANGE_START, \h01>> >>


\* a * b modulo 2^32 as <<high, low>>, by the bytes of a: for a below 2^31
\* and b below 2^16
TimesMod32(a, b) ==
    LET t0 == (a % 256) * b
        t1 == ((a \div 256) % 256) * b
        t2 == ((a \div 65536) % 256) * b
        t3 == (a \div 16777216) * b
        low == t0 + (t1 % 256) * 256
    IN  <<((low \div 65536) + (t1 \div 256) + t2 + (t3 % 256) * 256) % 65536,
          low % 65536>>

\* the four bytes at SYSTEM_INTERMEASUREMENT_PERIOD, most significant first
PeriodRegister(m) ==
    <<Rd(m, SYSTEM_INTERMEASUREMENT_PERIOD) * 256
          + Rd(m, SYSTEM_INTERMEASUREMENT_PERIOD + 1),
      Rd(m, SYSTEM_INTERMEASUREMENT_PERIOD + 2) * 256
          + Rd(m, SYSTEM_INTERMEASUREMENT_PERIOD + 3)>>

\* C22: start_continuous(period_ms) writes the stop_variable restore
\* sequence and then, for period_ms = 0, only SYSRANGE_START = 0x02, leaving
\* the inter-measurement period register as it was; for period_ms # 0 it
\* writes the inter-measurement period register with period_ms times the
\* calibration value the sensor showed, modulo 2^32, or with period_ms
\* itself when that value is 0, and then SYSRANGE_START = 0x04.
C22_StartContinuous ==
    [][ \A p \in PeriodsMs : StartContinuous(p) =>
            LET osc == Rd(regs', OSC_CALIBRATE_VAL) * 256
                           + Rd(regs', OSC_CALIBRATE_VAL + 1)
                period == IF osc = 0 THEN Wide(p) ELSE TimesMod32(p, osc)
            IN  IF p = 0
                THEN /\ log' = StopVariableRestore(stop_variable)
                                   \o << <<SYSRANGE_START, \h02>> >>
                     /\ PeriodRegister(regs') = PeriodRegister(regs)
                ELSE /\ log' = StopVariableRestore(stop_variable)
                                   \o << <<SYSTEM_INTERMEASUREMENT_PERIOD, period>>,
                                         <<SYSRANGE_START, \h04>> >>
                     /\ PeriodRegister(regs') = period ]_vars

\* a timed start whose scaled period exceeded 32 bits: 70000 * 65535 is
\* 4587450000, which is 292482704 modulo 2^32
C22_Witness ==
    /\ op = "start_continuous" /\ pc = "idle"
    /\ Rd(regs, OSC_CALIBRATE_VAL) = \hFF /\ Rd(regs, OSC_CALIBRATE_VAL + 1) = \hFF
    /\ Len(log) = 9
    /\ log[8] = <<SYSTEM_INTERMEASUREMENT_PERIOD, <<4462, 61072>> >>
    /\ log[9] = <<SYSRANGE_START, \h04>>
    /\ PeriodRegister(regs) = <<4462, 61072>>


\* the position of the first write to reg in the run of writes l, or
\* Len(l) + 1 when there is none
FirstWrite(l, reg) ==
    IF \E i \in 1..Len(l) : l[i][1] = reg
    THEN CHOOSE i \in 1..Len(l) :
             l[i][1] = reg /\ \A j \in 1..(i - 1) : l[j][1] # reg
    ELSE Len(l) + 1

\* C23: stop_variable changes only on entry to init, which gives it what
\* register 0x91 (bank 1) holds; stop_continuous writes 0 to that register
\* and leaves stop_variable alone; read_range_single_millimeters and
\* start_continuous write the stop_variable they find, which is therefore
\* the one the most recent init captured, to register 0x91 before their
\* start command, the write to SYSRANGE_START that ends the step.
C23_StopVariable ==
    [][ /\ (stop_variable' # stop_variable) => Calls("init")
        /\ Calls("init") => stop_variable' = Rd(regs, 256 + \h91)
        /\ Calls("stop_continuous") =>
               /\ <<\h91, \h00>> \in {log'[i] : i \in 1..Len(log')}
               /\ Rd(regs', 256 + \h91) = \h00
               /\ stop_variable' = stop_variable
        /\ (Calls("read_range_single_millimeters") \/ Calls("start_continuous")) =>
               /\ {log'[i][2] : i \in {j \in 1..Len(log') : log'[j][1] = \h91}}
                      = {stop_variable}
               /\ FirstWrite(log', \h91) < Len(log')
               /\ log'[Len(log')][1] = SYSRANGE_START
               /\ log'[Len(log')][2] \in {\h01, \h02, \h04} ]_vars

\* a measurement start that puts the captured byte back where
\* stop_continuous had written 0
C23_Witness ==
    /\ op = "start_continuous" /\ pc = "idle" /\ since_init = "later"
    /\ stop_variable = \h3C
    /\ log[4] = <<\h91, \h3C>>
    /\ Rd(regs, 256 + \h91) = \h3C


\* bit b of the byte v, as a boolean
BitSet(v, b) == (v \div (2 ^ b)) % 2 = 1

\* C24 as stated: getSequenceStepEnables decodes tcc from bit 4, msrc from
\* bit 3, dss from bit 2, pre_range from bit 6 and final_range from bit 7 of
\* the sequence-config register, for every 8-bit register value.
C24_Decoding ==
    Applied("getSequenceStepEnables") =>
        LET v == conv.in[1]
            enables == conv.out[1]
        IN  /\ enables.tcc = BitSet(v, 4)
            /\ enables.msrc = BitSet(v, 3)
            /\ enables.dss = BitSet(v, 2)
            /\ enables.pre_range = BitSet(v, 6)
            /\ enables.final_range = BitSet(v, 7)

\* C24 amended: getSequenceStepEnables decodes tcc from bit 4, dss from
\* bit 3, msrc from bit 2, pre_range from bit 6 and final_range from bit 7 of
\* the sequence-config register, for every 8-bit register value.
C24_DecodingAsCoded ==
    Applied("getSequenceStepEnables") =>
        LET v == conv.in[1]
            enables == conv.out[1]
        IN  /\ enables.tcc = BitSet(v, 4)
            /\ enables.dss = BitSet(v, 3)
            /\ enables.msrc = BitSet(v, 2)
            /\ enables.pre_range = BitSet(v, 6)
            /\ enables.final_range = BitSet(v, 7)

\* the value vl53l0x_init leaves in the register, 0xE8: dss, pre_range and
\* final_range enabled, msrc and tcc disabled
C24_Witness ==
    /\ Applied("getSequenceStepEnables") /\ conv.in[1] = \hE8
    /\ conv.out[1] = [tcc |-> FALSE, dss |-> TRUE, msrc |-> FALSE,
                      pre_range |-> TRUE, final_range |-> TRUE]


\* the timeouts the two timeout registers hold, in MCLKs
FinalRangeRegisterMclks(m) ==
    decodeTimeout(vl53l0x_read_reg16_bit(m, FINAL_RANGE_CONFIG_TIMEOUT_MACROP_HI))

PreRangeRegisterMclks(m) ==
    decodeTimeout(vl53l0x_read_reg16_bit(m, PRE_RANGE_CONFIG_TIMEOUT_MACROP_HI))

\* C25: when set_measurement_timing_budget or set_vcsel_pulse_period has
\* returned true with the pre-range step enabled, the final-range timeout
\* register decodes to at least the pre-range MCLKs, so that the subtraction
\* in getSequenceStepTimeouts does not wrap below zero.
C25_FinalCoversPreRange ==
    ( /\ pc = "idle" /\ ret = 1
      /\ op \in {"set_measurement_timing_budget", "set_vcsel_pulse_period"}
      /\ getSequenceStepEnables(regs).pre_range
      /\ getSequenceStepEnables(regs).final_range )
        => FinalRangeRegisterMclks(regs) >= PreRangeRegisterMclks(regs)


\* the sum C26 gives for the steps before the final range, with the start
\* overhead start, for sequence configuration c and the timeouts t
UsedBeforeFinal(c, t, start) ==
    start + 960
        + (IF BitSet(c, 4) THEN t.msrc_dss_tcc_us + 590 ELSE 0)
        + (IF BitSet(c, 3) THEN 2 * (t.msrc_dss_tcc_us + 690)
           ELSE IF BitSet(c, 2) THEN t.msrc_dss_tcc_us + 660 ELSE 0)
        + (IF BitSet(c, 6) THEN t.pre_range_us + 660 ELSE 0)

\* C26: set_measurement_timing_budget(b) with b >= 20000 fails exactly when
\* the final range step is enabled and used > b, used being 1320 + 960 plus
\* the enabled steps' timeouts and overheads plus 550; when the final range
\* is enabled and used <= b it programs the final range with b - used
\* microseconds (as MCLKs, plus the pre-range MCLKs when pre-range is
\* enabled) and caches b; get_measurement_timing_budget sums the same terms
\* with 1910 in place of 1320, and the final range's own timeout.
C26_BudgetRule ==
    (Applied("timing_budget") /\ conv.in[4] >= 20000) =>
        LET c == conv.in[1]
            b == conv.in[4]
            m == TimingRegisters(c, conv.in[2], conv.in[3])
            t == getSequenceStepTimeouts(m, getSequenceStepEnables(m))
            used == UsedBeforeFinal(c, t, 1320) + 550
            mclks == U16(timeoutMicrosecondsToMclks(
                             b - used, t.final_range_vcsel_period_pclks))
            programmed == IF BitSet(c, 6) THEN U16(mclks + t.pre_range_mclks)
                          ELSE mclks
        IN  /\ conv.out[2] = ~(BitSet(c, 7) /\ used > b)
            /\ (BitSet(c, 7) /\ used <= b) =>
                   /\ conv.out[3] = << <<FINAL_RANGE_CONFIG_TIMEOUT_MACROP_HI,
                                         encodeTimeout(programmed)>> >>
                   /\ conv.out[4] = b
            /\ ~(BitSet(c, 7) /\ used <= b) =>
                   conv.out[3] = <<>> /\ conv.out[4] = 0
            /\ conv.out[1] = UsedBeforeFinal(c, t, 1910)
                                 + (IF BitSet(c, 7) THEN t.final_range_us + 550
                                    ELSE 0)

\* a budget of 33000 refused because the enabled steps before the final
\* range use more: DSS and a pre-range of 1021 MCLKs
C26_Witness ==
    /\ Applied("timing_budget")
    /\ conv.in = <<\hE8, \h25, \h02FF, 33000>>
    /\ conv.out[2] = FALSE /\ conv.out[3] = <<>>


\* C26 as stated: set_measurement_timing_budget(b) with b >= 20000 fails
\* exactly when the final range step is enabled and used > b, and whenever
\* it does not fail it allocates b - used microseconds to the final range.
C26_AllocatesOtherwise ==
    (Applied("timing_budget") /\ conv.in[4] >= 20000) =>
        LET c == conv.in[1]
            b == conv.in[4]
            m == TimingRegisters(c, conv.in[2], conv.in[3])
            t == getSequenceStepTimeouts(m, getSequenceStepEnables(m))
            used == UsedBeforeFinal(c, t, 1320) + 550
            mclks == U16(timeoutMicrosecondsToMclks(
                             b - used, t.final_range_vcsel_period_pclks))
            programmed == IF BitSet(c, 6) THEN U16(mclks + t.pre_range_mclks)
                          ELSE mclks
        IN  /\ conv.out[2] = ~(BitSet(c, 7) /\ used > b)
            /\ conv.out[2] =>
                   conv.out[3] = << <<FINAL_RANGE_CONFIG_TIMEOUT_MACROP_HI,
                                      encodeTimeout(programmed)>> >>


\* C27: a step that begins a poll records the tick of that moment in
\* timeout_start_ms, also when it is the interrupt-status poll that follows
\* the start-bit poll of one read_range_single_millimeters; a poll ends with
\* its condition not met only when io_timeout > 0 and the tick exceeds the
\* tick recorded at its own beginning by more than io_timeout; and the
\* recorded tick stays as it is while the poll runs.
C27_FreshDeadline ==
    [][ /\ (pc' \in Polls /\ pc' # pc) => timeout_start_ms' = tick'
        /\ (pc = "start" /\ pc' = "irq") =>
               op = "read_range_single_millimeters" /\ timeout_start_ms' = tick
        /\ EndsByExpiry =>
               /\ io_timeout > 0
               /\ tick - timeout_start_ms > io_timeout
               /\ expired'
        /\ (pc \in Polls /\ pc' = pc) => timeout_start_ms' = timeout_start_ms ]_vars

\* the interrupt-status poll of a single-shot read still running, unexpired,
\* at the last tick: it began later than tick 0, where a deadline counted
\* from there would have passed
C27_Witness ==
    /\ op = "read_range_single_millimeters" /\ pc = "irq" /\ ~expired
    /\ io_timeout = AppTimeout
    /\ tick = TickAt(MaxTickIdx)
    /\ timeout_start_ms > 0
    /\ tick - timeout_start_ms <= io_timeout


\* a returned call that sets did_timeout, and one that clears it
SetsFlag(e) == e.op \in RangeReads /\ e.expired

ClearsFlag(e) == e.op \in {"init", "timeout_occurred"}

\* C28: did_timeout is one flag for every calling context: a
\* timeout_occurred() returns true exactly when some earlier call, of
\* whichever context, was a range read that timed out and no call of
\* whichever context has cleared the flag since.  So a context whose read
\* timed out gets false from its next timeout_occurred() when the other
\* context's timeout_occurred() came in between.
C28_SharedFlag ==
    conv.f = "contexts" =>
        \A j \in 1..Len(conv.out) :
            conv.out[j].op = "timeout_occurred" =>
                ( conv.out[j].ret = 1
                    <=> \E i \in 1..(j - 1) :
                            /\ SetsFlag(conv.out[i])
                            /\ \A k \in (i + 1)..(j - 1) : ~ClearsFlag(conv.out[k]) )

\* A's read times out and returns 65535, B's timeout_occurred() returns true,
\* A's timeout_occurred() returns false
C28_Witness ==
    /\ conv.f = "contexts" /\ Len(conv.out) = 4
    /\ conv.out[2] = [ctx |-> "A", op |-> "read_range_continuous_millimeters",
                      ret |-> 65535, expired |-> TRUE]
    /\ conv.out[3] = [ctx |-> "B", op |-> "timeout_occurred", ret |-> 1,
                      expired |-> FALSE]
    /\ conv.out[4] = [ctx |-> "A", op |-> "timeout_occurred", ret |-> 0,
                      expired |-> FALSE]


\* the public operations C29 names
BankedOperations ==
    {"init", "start_continuous", "stop_continuous",
     "read_range_single_millimeters", "read_range_continuous_millimeters",
     "set_vcsel_pulse_period", "set_measurement_timing_budget"}

\* C29: whenever one of the public operations has returned, by success,
\* validation failure or timeout, the bank-select register 0xFF holds 0x00,
\* the last value written to it.
C29_BankRestored ==
    (pc = "idle" /\ op \in BankedOperations) => Rd(regs, BANK_SELECT) = \h00


\* C30: a set_vcsel_pulse_period with a valid type and period goes on to its
\* phase calibration whatever the re-application of the timing budget
\* returned: it keeps the SYSTEM_SEQUENCE_CONFIG it reads (in the bank then
\* selected, where the call has written nothing before), writes 0x02 there
\* and starts the calibration.  However the calibration's poll ends, by the
\* status bits or by the deadline, the call writes the kept value back as its
\* last write and returns true, and did_timeout stays as it was.
C30_VcselRestores ==
    [][ /\ \A ty \in VcselTypes, p \in Periods :
              (SetVcselCall(ty, p) /\ ValidPeriod(ty, p)) =>
                  /\ pc' = "vcsel_cal"
                  /\ sequence_config'
                         = Rd(regs, Bank(regs') * 256 + SYSTEM_SEQUENCE_CONFIG)
                  /\ vl53l0x_read_reg(regs', SYSTEM_SEQUENCE_CONFIG) = \h02
                  /\ Len(log') >= 2
                  /\ log'[Len(log') - 1] = <<SYSTEM_SEQUENCE_CONFIG, \h02>>
                  /\ log'[Len(log')] = <<SYSRANGE_START, \h01>>
        /\ (pc = "vcsel_cal" /\ pc' # pc) =>
               /\ pc' = "idle" /\ ret' = 1
               /\ op' = "set_vcsel_pulse_period"
               /\ log'[Len(log')] = <<SYSTEM_SEQUENCE_CONFIG, sequence_config>>
               /\ vl53l0x_read_reg(regs', SYSTEM_SEQUENCE_CONFIG) = sequence_config
               /\ did_timeout' = did_timeout ]_vars

\* a call whose calibration timed out after a completed vl53l0x_init: it
\* has returned true with 0xE8 back in SYSTEM_SEQUENCE_CONFIG and no flag
C30_Witness ==
    /\ op = "set_vcsel_pulse_period" /\ pc = "idle" /\ expired
    /\ ret = 1 /\ ~did_timeout
    /\ sequence_config = \hE8
    /\ log[Len(log)] = <<SYSTEM_SEQUENCE_CONFIG, \hE8>>
    /\ vl53l0x_read_reg(regs, SYSTEM_SEQUENCE_CONFIG) = \hE8


\* the final range step is enabled in the sequence-config register as the
\* driver reads it from the register file m
FinalRangeEnabled(m) == BitSet(vl53l0x_read_reg(m, SYSTEM_SEQUENCE_CONFIG), 7)

\* C31: set_measurement_timing_budget(b) with b >= 20000 and the final range
\* step disabled returns true, writes no register and leaves
\* measurement_timing_budget_us as it was; a set_measurement_timing_budget
\* changes measurement_timing_budget_us only to b and only in a call whose
\* one write is to the final-range timeout register, and such a call caches b.
C31_CacheFollowsWrite ==
    [][ \A b \in Budgets : SetMeasurementTimingBudget(b) =>
            /\ (b >= 20000 /\ ~FinalRangeEnabled(regs)) =>
                   /\ ret' = 1
                   /\ log' = <<>> /\ regs' = regs
                   /\ measurement_timing_budget_us' = measurement_timing_budget_us
            /\ log' = <<>> =>
                   measurement_timing_budget_us' = measurement_timing_budget_us
            /\ log' # <<>> =>
                   /\ Len(log') = 1
                   /\ log'[1][1] = FINAL_RANGE_CONFIG_TIMEOUT_MACROP_HI
                   /\ ret' = 1
                   /\ measurement_timing_budget_us' = b ]_vars

\* a budget accepted with the final range step disabled, after a
\* vl53l0x_init that had read the budget and then timed out in a calibration:
\* nothing written, and the cached budget still the one init read
C31_Witness ==
    /\ op = "set_measurement_timing_budget" /\ pc = "idle" /\ ret = 1
    /\ ~FinalRangeEnabled(regs)
    /\ vl53l0x_read_reg(regs, SYSTEM_SEQUENCE_CONFIG) \in {\h01, \h02}
    /\ log = <<>>
    /\ measurement_timing_budget_us >= 20000
    /\ measurement_timing_budget_us \notin Budgets

=============================================================================
